---- MODULE Spec2Model ----
(***************************************************************************)
(* Clip extraction scripts of the repository: the backward trigger/outcome *)
(* scan of extract_free_kicks_goals.py and extract_penalties.py, the goal  *)
(* exclusion of extract_shots.py and extract_background.py, the clip       *)
(* planning, and the ffmpeg strategy cascades of these scripts, of         *)
(* extract_all_goals_fixed.py and of extract/mkv_clips.py.                 *)
(*                                                                         *)
(* Times read from annotations are whole seconds (the code parses MM:SS    *)
(* with int()).  A planned interval is kept as exact rationals num/den,    *)
(* den being the frame rate of the period video.                           *)
(*                                                                         *)
(* Spec is one run of a script on one game.  SpecRerun is a run followed   *)
(* by a second run on the same game and output directory.  SpecEdge is a   *)
(* run of the two correlation scripts on games with unparseable times,     *)
(* period numbers other than 1 and 2, and events at the edges of a video.  *)
(* SpecWorkers is two processes of a correlation script on the same pair.  *)
(* SpecGames is process_all_games of extract_background.py over several    *)
(* games.  SpecLoop is the sampling loop of extract_background_clips       *)
(* followed through all its passes, under weak fairness.  SpecFrames is    *)
(* extract_clips of extract/extract_into_mkv.py.                           *)
(***************************************************************************)
EXTENDS Integers, Sequences, FiniteSets, TLC

VARIABLES
    script,            \* which script runs on the game
    annotations,       \* data['annotations'], in source order
    window,            \* freekick_window / trigger_window
    clips_per_game,    \* argument of extract_background_clips
    videos,            \* the two period videos of the game directory
    events_with_time,  \* the normalised, sorted event list
    pairs,             \* freekick_goal_pairs / penalty_trigger_pairs
    goal_events,       \* the Goal events kept by the script
    shot_events,       \* the shots kept by extract_shot_clips
    danger_zones,      \* (period, start, end) around each goal
    pc,                \* position of the script
    idx,               \* index of the item being processed (1-based)
    period,            \* period of the sampling loop
    attempts,          \* draws made by the sampling loop
    clips_extracted,   \* clips counted as extracted
    plan,              \* interval and output path planned for the current item
    disk,              \* output directory: the files in it
    tried,             \* strategies run for the current item and their verdicts
    last,              \* the latest tool invocation: what it found and left
    accepted,          \* background samples for which an extraction was attempted
    run,               \* 1 in the first run over the output directory, 2 in a second one
    succeeded,         \* output paths reported as extracted by the first run
    stream,            \* values random.uniform returns after random.seed(42), by call
    ndraws,            \* calls of random.uniform made by the current run
    extracted1,        \* clips_extracted at the end of the first run
    workers,           \* position of each of two concurrent workers on one clip
    game,              \* number of the game in the loop of process_all_games
    game_start,        \* calls of random.uniform made before the current game
    frames_dirs        \* directories of single frames in the output directory

vars == <<script, annotations, window, clips_per_game, videos, events_with_time,
          pairs, goal_events, shot_events, danger_zones, pc, idx, period,
          attempts, clips_extracted, plan, disk, tried, last,
          accepted, run, succeeded, stream, ndraws, extracted1,
          workers, game, game_start, frames_dirs>>

-----------------------------------------------------------------------------
(* Bounds of the model *)

MaxEvents == 3       \* annotation records of a game, correlation scripts
MaxShotEvents == 2   \* annotation records of a game, shot and goal scripts
MaxDraws == 2        \* draws of the sampling loop that are followed
Res == 2             \* a drawn time is a multiple of 1/Res second
MaxGames == 2        \* games found by process_all_games

(* Program constants *)

clip_duration_sec == 15
min_output_bytes == 1000

-----------------------------------------------------------------------------
(* Annotation records.  gameTime "<period> - MM:SS" is kept as its three   *)
(* integer fields; wellformed = FALSE stands for a missing or malformed    *)
(* string.                                                                 *)

GameTime(p, m, s) == [wellformed |-> TRUE, period |-> p, minutes |-> m, seconds |-> s]

\* the helper without its except clause: whatever the fields hold is returned
get_event_time_seconds_unguarded(event) ==
    [parsed |-> TRUE, period |-> event.gameTime.period,
     total_seconds |-> (event.gameTime.minutes * 60) + event.gameTime.seconds]

\* get_event_time_seconds: (period, total_seconds), or (None, None) when the
\* string does not parse (parsed = FALSE)
get_event_time_seconds(event) ==
    IF event.gameTime.wellformed
    THEN [parsed |-> TRUE, period |-> event.gameTime.period,
          total_seconds |-> (event.gameTime.minutes * 60) + event.gameTime.seconds]
    ELSE [parsed |-> FALSE, period |-> 0, total_seconds |-> 0]

trigger_labels(s) ==
    IF s = "penalty" THEN {"Foul", "Yellow card", "Red card"}
    ELSE {"Direct free-kick", "Indirect free-kick"}

outcome_label(s) == IF s = "penalty" THEN "Penalty" ELSE "Goal"

\* the loop that fills events_with_time: records whose time parses and whose
\* label is non-empty, in source order; src is the identity of the record
RECURSIVE CollectEvents(_, _)
CollectEvents(ann, k) ==
    IF k > Len(ann) THEN <<>>
    ELSE LET pt == get_event_time_seconds(ann[k])
         IN  IF pt.parsed /\ ann[k].label # ""
             THEN <<[period |-> pt.period, time_seconds |-> pt.total_seconds,
                     label |-> ann[k].label, gameTime |-> ann[k].gameTime,
                     src |-> k]>> \o CollectEvents(ann, k + 1)
             ELSE CollectEvents(ann, k + 1)

\* the sort key compared strictly: equal keys end up in reverse order
KeyLess(a, b) ==
    \/ a.period < b.period
    \/ a.period = b.period /\ a.time_seconds < b.time_seconds

\* the sort key (period, time_seconds), compared as Python compares tuples
KeyLeq(a, b) ==
    \/ a.period < b.period
    \/ a.period = b.period /\ a.time_seconds <= b.time_seconds

\* list.sort is stable: an element is placed after every element whose key
\* is not greater
RECURSIVE InsertSorted(_, _)
InsertSorted(sorted, e) ==
    IF sorted = <<>> THEN <<e>>
    ELSE IF KeyLeq(sorted[Len(sorted)], e) THEN Append(sorted, e)
    ELSE Append(InsertSorted(SubSeq(sorted, 1, Len(sorted) - 1), e),
                sorted[Len(sorted)])

RECURSIVE SortEvents(_)
SortEvents(evs) ==
    IF evs = <<>> THEN <<>>
    ELSE InsertSorted(SortEvents(SubSeq(evs, 1, Len(evs) - 1)), evs[Len(evs)])

\* the scan without its "break" on a found trigger: the earliest trigger of
\* the window wins
RECURSIVE ScanBackEarliest(_, _, _, _, _)
ScanBackEarliest(evs, i, j, trig, win) ==
    IF j < 1 THEN 0
    ELSE IF \/ evs[j].period # evs[i].period
            \/ (evs[i].time_seconds - evs[j].time_seconds) > win
         THEN 0
    ELSE LET earlier == ScanBackEarliest(evs, i, j - 1, trig, win)
         IN  IF earlier # 0 THEN earlier
             ELSE IF evs[j].label \in trig THEN j ELSE 0

\* the scan without the test on the elapsed time
RECURSIVE ScanBackNoWindow(_, _, _, _, _)
ScanBackNoWindow(evs, i, j, trig, win) ==
    IF j < 1 THEN 0
    ELSE IF evs[j].period # evs[i].period THEN 0
    ELSE IF evs[j].label \in trig THEN j
    ELSE ScanBackNoWindow(evs, i, j - 1, trig, win)

\* the scan stopped by an event carrying the label of the outcome
RECURSIVE ScanBackStopsAtOutcome(_, _, _, _, _)
ScanBackStopsAtOutcome(evs, i, j, trig, win) ==
    IF j < 1 THEN 0
    ELSE IF \/ evs[j].period # evs[i].period
            \/ (evs[i].time_seconds - evs[j].time_seconds) > win
         THEN 0
    ELSE IF evs[j].label \in trig THEN j
    ELSE IF evs[j].label = evs[i].label THEN 0
    ELSE ScanBackStopsAtOutcome(evs, i, j - 1, trig, win)

\* the inner loop "for j in range(i - 1, -1, -1)": index of the trigger found
\* for the outcome at index i, or 0
RECURSIVE ScanBack(_, _, _, _, _)
ScanBack(evs, i, j, trig, win) ==
    IF j < 1 THEN 0
    ELSE IF \/ evs[j].period # evs[i].period
            \/ (evs[i].time_seconds - evs[j].time_seconds) > win
         THEN 0
    ELSE IF evs[j].label \in trig THEN j
    ELSE ScanBack(evs, i, j - 1, trig, win)

\* the outer loop over the sorted events
RECURSIVE FindPairs(_, _, _, _, _)
FindPairs(evs, i, out, trig, win) ==
    IF i > Len(evs) THEN <<>>
    ELSE LET found == IF evs[i].label = out
                      THEN ScanBack(evs, i, i - 1, trig, win) ELSE 0
         IN  IF found # 0
             THEN <<[outcome |-> i, trigger |-> found]>>
                      \o FindPairs(evs, i + 1, out, trig, win)
             ELSE FindPairs(evs, i + 1, out, trig, win)

-----------------------------------------------------------------------------
(* Output directory and the external tool *)

Max(a, b) == IF a >= b THEN a ELSE b
Min(a, b) == IF a <= b THEN a ELSE b
Abs(a) == IF a >= 0 THEN a ELSE 0 - a

Exists(d, path) == \E f \in d : f.path = path
FileAt(d, path) == CHOOSE f \in d : f.path = path
GetSize(d, path) == FileAt(d, path).size
Remove(d, path) == {f \in d : f.path # path}
\* ffmpeg -y replaces whatever is at the path; by = the strategy that
\* wrote, in which run
WriteFile(d, path, size, by) ==
    Remove(d, path) \cup {[path |-> path, size |-> size, by |-> by, run |-> run]}

NoWrite == 0 - 1

\* the size a file must exceed to count: 1000 bytes, 0 in extract/mkv_clips.py
\* and extract/extract_into_mkv.py
MinBytes(s) == IF s \in {"mkv_clips", "into_mkv"} THEN 0 ELSE min_output_bytes

\* what one invocation of ffmpeg can do: raise (the executable cannot be
\* started), or exit with a status having written a file (of the threshold
\* size or one byte more) or having left the output path alone
ToolOutcomes(s) ==
    {[raised |-> TRUE, rc |-> 1, write |-> NoWrite]}
    \cup [raised : {FALSE}, rc : {0, 1},
          write : {NoWrite, MinBytes(s), MinBytes(s) + 1}]

AfterTool(d, path, o, by) ==
    IF o.raised \/ o.write = NoWrite THEN d ELSE WriteFile(d, path, o.write, by)

\* the path a strategy writes: method 3 of mkv_clips.py writes an .mp4
OutPath(s, strategy, path) ==
    IF s = "mkv_clips" /\ strategy = 3 THEN [path EXCEPT !.ext = "mp4"] ELSE path

\* the test after subprocess.run: d is the directory after the run
JudgedOk(s, strategy, d, path, o) ==
    IF s = "mkv_clips"
    THEN \* os.path.exists(f) and os.path.getsize(f) > 0
         Exists(d, path) /\ GetSize(d, path) > 0
    ELSE IF strategy = 3
    THEN \* last_result.returncode == 0
         o.rc = 0
    ELSE \* returncode == 0 and os.path.exists(p) and os.path.getsize(p) > 1000
         o.rc = 0 /\ Exists(d, path) /\ GetSize(d, path) > min_output_bytes

\* the record kept of one invocation: d before it, d2 after it
Tried(path, strategy, d, d2, o, verdict) ==
    [path |-> path, strategy |-> strategy, raised |-> o.raised, rc |-> o.rc,
     present_before |-> Exists(d, path),
     size_after |-> IF Exists(d2, path) THEN GetSize(d2, path) ELSE NoWrite,
     verdict |-> verdict]

NoInvocation == [path |-> <<>>, strategy |-> 0, raised |-> FALSE, rc |-> 0,
                 present_before |-> FALSE, size_after |-> NoWrite, verdict |-> "none"]

\* a run of one process: no concurrent workers
NoWorkers == <<>>

NoPlan == [period |-> 0, start_num |-> 0, start_eps |-> 0,
           dur_num |-> 0, dur_eps |-> 0, den |-> 1, path |-> <<>>]


\* f"{x:.3f}" for x = num / den moved by eps representable steps: the whole
\* number of milliseconds nearest to x (an exact half goes to the even one)
Format3f(num, eps, den) ==
    LET q == (num * 1000) \div den
        r == (num * 1000) % den
    IN  IF 2 * r < den THEN q
        ELSE IF 2 * r > den THEN q + 1
        ELSE IF eps < 0 THEN q
        ELSE IF eps > 0 THEN q + 1
        ELSE IF q % 2 = 0 THEN q ELSE q + 1

\* the "-ss" and "-t" arguments of the ffmpeg command of a plan, in ms
CmdArgs(pl) ==
    [ss |-> Format3f(pl.start_num, pl.start_eps, pl.den),
     t  |-> Format3f(pl.dur_num, pl.dur_eps, pl.den)]
-----------------------------------------------------------------------------
(* The loop over the items of a game *)

CorrScripts == {"freekick", "penalty"}

NumItems ==
    IF script \in CorrScripts THEN Len(pairs)
    ELSE IF script = "shots" THEN Len(shot_events)
    ELSE Len(goal_events)

\* the end of one pass of the loop: the next pair, shot or goal, or, in
\* extract_background_clips, the head of the while loop
NextItem ==
    /\ plan' = NoPlan
    /\ IF script = "background"
       THEN pc' = "draw" /\ idx' = idx
       ELSE /\ idx' = idx + 1
            /\ pc' = (IF idx + 1 > NumItems THEN "done" ELSE "clip")

\* a pass that ends the loop instead of going on with the next item
SkipItemAndStop ==
    /\ pc' = "done" /\ idx' = idx /\ plan' = NoPlan
    /\ tried' = <<>> /\ last' = NoInvocation

\* one pass that ends before any tool invocation
SkipItem == NextItem /\ tried' = <<>> /\ last' = NoInvocation

\* the cascade of the current item starts
StartCascade(pl) ==
    /\ plan' = pl
    /\ pc' = "s1"
    /\ idx' = idx
    /\ tried' = <<>>
    /\ last' = NoInvocation

-----------------------------------------------------------------------------
(* extract_freekick_goal_clips / extract_penalty_clips *)

\* the name of the clip of pair number k: game name, rule kind, index,
\* period and the two MM:SS strings
ClipPath(s, k, p, trig, out) ==
    [kind |-> s, idx |-> k, period |-> p,
     t1 |-> <<trig.gameTime.minutes, trig.gameTime.seconds>>,
     t2 |-> <<out.gameTime.minutes, out.gameTime.seconds>>, ext |-> "mkv"]

\* the clip starting at the trigger instead of 15 s before it
PenaltyPlanAtTrigger(p, trigger_time_sec, v, path) ==
    LET start_u == trigger_time_sec * v.fps
        end_u   == Min(v.total_frames, (trigger_time_sec + clip_duration_sec) * v.fps)
    IN  [period |-> p, start_num |-> start_u, start_eps |-> 0,
         dur_num |-> end_u - start_u, dur_eps |-> 0, den |-> v.fps, path |-> path]

\* extract_penalties.py: start 15 s before the trigger, end clamped to the
\* video duration total_frames / fps; values in units of 1/fps second
PenaltyPlan(p, trigger_time_sec, v, path) ==
    LET clip_start_time_sec == Max(0, trigger_time_sec - clip_duration_sec)
        start_u == clip_start_time_sec * v.fps
        end_u   == Min(v.total_frames, (clip_start_time_sec + clip_duration_sec) * v.fps)
    IN  [period |-> p, start_num |-> start_u, start_eps |-> 0,
         dur_num |-> end_u - start_u, dur_eps |-> 0, den |-> v.fps, path |-> path]

\* extract_free_kicks_goals.py: end = math.nextafter(goal, goal - 1), one
\* representable step (eps = -1) below the goal time; start = max(0, end - 15)
FreekickPlan(p, goal_time_sec, path) ==
    LET clamped == goal_time_sec - clip_duration_sec <= 0
    IN  [period |-> p,
         start_num |-> IF clamped THEN 0 ELSE goal_time_sec - clip_duration_sec,
         start_eps |-> IF clamped THEN 0 ELSE 0 - 1,
         dur_num |-> IF clamped THEN goal_time_sec ELSE clip_duration_sec,
         dur_eps |-> IF clamped THEN 0 - 1 ELSE 0,
         den |-> 1, path |-> path]

\* the test dropping only a negative duration
TooShortNegative(pl) == pl.dur_num < 0

\* "actual_duration < 1"
TooShort(pl) ==
    \/ pl.dur_num < pl.den
    \/ pl.dur_num = pl.den /\ pl.dur_eps < 0

\* lines 46-104: build and sort the events, find the pairs, look for the videos
Correlate ==
    /\ pc = "start"
    /\ script \in CorrScripts
    /\ LET evs == SortEvents(CollectEvents(annotations, 1))
           found == FindPairs(evs, 1, outcome_label(script),
                              trigger_labels(script), window)
       IN  /\ events_with_time' = (IF annotations = <<>> THEN <<>> ELSE evs)
           /\ pairs' = (IF annotations = <<>> THEN <<>> ELSE found)
           /\ pc' = (IF annotations = <<>> \/ found = <<>> THEN "done" ELSE "clip")
    /\ idx' = 1
    /\ clips_extracted' = 0
    /\ UNCHANGED <<script, annotations, window, clips_per_game, videos, goal_events,
                   shot_events, danger_zones, period, attempts, plan, disk, tried,
                   last, accepted,
                   run, succeeded, stream, ndraws, extracted1,
                   workers, game, game_start, frames_dirs>>

\* lines 117-168 of one pass: select the video, name the clip, skip an
\* existing clip, read the frame rate, plan the interval
ProcessPair ==
    /\ pc = "clip"
    /\ script \in CorrScripts
    /\ LET out  == events_with_time[pairs[idx].outcome]
           trig == events_with_time[pairs[idx].trigger]
           p    == IF script = "penalty" THEN trig.period ELSE out.period
       IN  IF p <= 0 \/ p > 2
           THEN SkipItem
           ELSE LET v    == videos[p]
                    path == ClipPath(script, idx, p, trig, out)
                    pl   == IF script = "penalty"
                            THEN PenaltyPlan(p, trig.time_seconds, v, path)
                            ELSE FreekickPlan(p, out.time_seconds, path)
                IN  IF \/ ~v.exists
                       \/ Exists(disk, path)
                       \/ ~v.opens
                       \/ v.fps <= 0
                       \/ TooShort(pl)
                    THEN SkipItem
                    ELSE StartCascade(pl)
    /\ UNCHANGED <<script, annotations, window, clips_per_game, videos, events_with_time,
                   pairs, goal_events, shot_events, danger_zones, period, attempts,
                   clips_extracted, disk, accepted,
                   run, succeeded, stream, ndraws, extracted1,
                   workers, game, game_start, frames_dirs>>

-----------------------------------------------------------------------------
(* extract_shot_clips (extract_shots.py) *)

seconds_before == 10
seconds_after == 5
near_goal_seconds == 10

\* sorted(annotations, key=lambda x: int(x.get('position', 0))): stable
RECURSIVE InsertByPosition(_, _)
InsertByPosition(sorted, e) ==
    IF sorted = <<>> THEN <<e>>
    ELSE IF sorted[Len(sorted)].position <= e.position THEN Append(sorted, e)
    ELSE Append(InsertByPosition(SubSeq(sorted, 1, Len(sorted) - 1), e),
                sorted[Len(sorted)])

RECURSIVE SortByPosition(_)
SortByPosition(evs) ==
    IF evs = <<>> THEN <<>>
    ELSE InsertByPosition(SortByPosition(SubSeq(evs, 1, Len(evs) - 1)), evs[Len(evs)])

\* lines 41-52: (period, total_seconds) of every Goal whose time parses
RECURSIVE GoalTimes(_, _)
GoalTimes(evs, k) ==
    IF k > Len(evs) THEN <<>>
    ELSE IF evs[k].label = "Goal" /\ evs[k].gameTime.wellformed
    THEN <<<<evs[k].gameTime.period,
             evs[k].gameTime.minutes * 60 + evs[k].gameTime.seconds>>>>
             \o GoalTimes(evs, k + 1)
    ELSE GoalTimes(evs, k + 1)

\* lines 66-74: a goal of the same period with abs(goal_time - shot_time) < 10
is_near_goal(p, shot_time, goals) ==
    \E n \in DOMAIN goals :
        goals[n][1] = p /\ Abs(goals[n][2] - shot_time) < near_goal_seconds

\* lines 55-88: the shots on target that are not near a goal
RECURSIVE ShotEvents(_, _, _)
ShotEvents(evs, k, goals) ==
    IF k > Len(evs) THEN <<>>
    ELSE IF /\ evs[k].label = "Shots on target"
            /\ evs[k].gameTime.wellformed
            /\ ~is_near_goal(evs[k].gameTime.period,
                             evs[k].gameTime.minutes * 60 + evs[k].gameTime.seconds,
                             goals)
    THEN <<[period |-> evs[k].gameTime.period, minutes |-> evs[k].gameTime.minutes,
            seconds |-> evs[k].gameTime.seconds, position |-> evs[k].position,
            gameTime |-> evs[k].gameTime, src |-> evs[k].src]>>
             \o ShotEvents(evs, k + 1, goals)
    ELSE ShotEvents(evs, k + 1, goals)

\* the records of the list with their place in it
WithSrc(ann) == [k \in DOMAIN ann |->
                    [gameTime |-> ann[k].gameTime, label |-> ann[k].label,
                     position |-> ann[k].position, src |-> k]]

\* lines 31-92
FilterShots ==
    /\ pc = "start"
    /\ script = "shots"
    /\ LET sorted_events == SortByPosition(WithSrc(annotations))
           goals == GoalTimes(sorted_events, 1)
           shots == ShotEvents(sorted_events, 1, goals)
       IN  /\ goal_events' = goals
           /\ shot_events' = shots
           /\ pc' = (IF shots = <<>> THEN "done" ELSE "clip")
    /\ idx' = 1
    /\ UNCHANGED <<script, annotations, window, clips_per_game, videos,
                   events_with_time, pairs, danger_zones, period, attempts,
                   clips_extracted, plan, disk, tried, last, accepted,
                   run, succeeded, stream, ndraws, extracted1,
                   workers, game, game_start, frames_dirs>>

\* "{game}_shot_{i+1}_period{p}_{MM}m{SS}s_{team}.mkv"
ShotPath(k, shot) ==
    [kind |-> "shots", idx |-> k, period |-> shot.period,
     t1 |-> <<shot.minutes, shot.seconds>>, t2 |-> <<>>, ext |-> "mkv"]

\* lines 145-157: start_frame / fps, 10 s before the shot; 15 s long
ShotPlan(shot, v, path) ==
    LET total_seconds == shot.minutes * 60 + shot.seconds
        shot_frame    == total_seconds * v.fps
        start_frame   == Max(0, shot_frame - (seconds_before * v.fps))
    IN  [period |-> shot.period, start_num |-> start_frame, start_eps |-> 0,
         dur_num |-> (seconds_before + seconds_after) * v.fps, dur_eps |-> 0,
         den |-> v.fps, path |-> path]

\* lines 108-173 of one pass.  start_frame / fps with fps = 0 raises
\* ZeroDivisionError, which no handler of the script catches.
ProcessShot ==
    /\ pc = "clip"
    /\ script = "shots"
    /\ LET shot == shot_events[idx]
       IN  IF shot.period <= 0 \/ shot.period > 2
           THEN SkipItem
           ELSE LET v    == videos[shot.period]
                    path == ShotPath(idx, shot)
                IN  IF ~v.exists \/ Exists(disk, path) \/ ~v.opens
                    THEN SkipItem
                    ELSE IF v.fps = 0
                    THEN pc' = "crashed" /\ UNCHANGED <<idx, plan, tried, last>>
                    ELSE StartCascade(ShotPlan(shot, v, path))
    /\ UNCHANGED <<script, annotations, window, clips_per_game, videos, events_with_time,
                   pairs, goal_events, shot_events, danger_zones, period, attempts,
                   clips_extracted, disk, accepted,
                   run, succeeded, stream, ndraws, extracted1,
                   workers, game, game_start, frames_dirs>>

-----------------------------------------------------------------------------
(* extract_goal_clips (extract_all_goals_fixed.py) and extract_clips        *)
(* (extract/mkv_clips.py)                                                   *)

seconds_to_extract == 15
assumed_fps == 25
mkv_before == 15
mkv_duration == 30

RECURSIVE SelectSeq2(_, _, _)
SelectSeq2(evs, k, keep) ==
    IF k > Len(evs) THEN <<>>
    ELSE IF k \in keep THEN <<evs[k]>> \o SelectSeq2(evs, k + 1, keep)
    ELSE SelectSeq2(evs, k + 1, keep)

\* extract_all_goals_fixed.py lines 31-40: the Goal records, in source order
GoalRecords(ann) ==
    SelectSeq2(ann, 1, {k \in DOMAIN ann : ann[k].label = "Goal"})

\* mkv_clips.py lines 62-64: the goals whose position is no Offside position
ValidGoals(ann) ==
    LET offside_positions == {ann[k].position : k \in {n \in DOMAIN ann : ann[n].label = "Offside"}}
    IN  SelectSeq2(ann, 1, {k \in DOMAIN ann :
                              ann[k].label = "Goal" /\ ann[k].position \notin offside_positions})

ListGoals ==
    /\ pc = "start"
    /\ script \in {"goals_fixed", "mkv_clips", "into_mkv"}
    /\ LET goals == IF script = "goals_fixed" THEN GoalRecords(WithSrc(annotations))
                    ELSE ValidGoals(WithSrc(annotations))
       IN  /\ goal_events' = goals
           /\ pc' = (IF goals = <<>> THEN "done" ELSE "clip")
    /\ idx' = 1
    /\ UNCHANGED <<script, annotations, window, clips_per_game, videos,
                   events_with_time, pairs, shot_events, danger_zones, period,
                   attempts, clips_extracted, plan, disk, tried, last, accepted,
                   run, succeeded, stream, ndraws, extracted1,
                   workers, game, game_start, frames_dirs>>

\* "{game}_goal_{i+1}_period{p}_{MMmSS}s_{team}.mkv"
GoalPath(k, goal) ==
    [kind |-> "goals_fixed", idx |-> k, period |-> goal.gameTime.period,
     t1 |-> <<goal.gameTime.minutes, goal.gameTime.seconds>>, t2 |-> <<>>,
     ext |-> "mkv"]

\* extract_all_goals_fixed.py lines 92-103: 15 s before the goal, 15 s long
GoalPlan(goal, v, path) ==
    LET total_seconds == goal.gameTime.minutes * 60 + goal.gameTime.seconds
        goal_frame    == total_seconds * v.fps
        start_frame   == Max(0, goal_frame - (seconds_to_extract * v.fps))
    IN  [period |-> goal.gameTime.period, start_num |-> start_frame, start_eps |-> 0,
         dur_num |-> seconds_to_extract * v.fps, dur_eps |-> 0,
         den |-> v.fps, path |-> path]

\* extract_all_goals_fixed.py lines 56-120 of one pass
ProcessGoal ==
    /\ pc = "clip"
    /\ script = "goals_fixed"
    /\ LET goal == goal_events[idx]
       IN  IF \/ ~goal.gameTime.wellformed
              \/ goal.gameTime.period <= 0 \/ goal.gameTime.period > 2
           THEN SkipItem
           ELSE LET v    == videos[goal.gameTime.period]
                    path == GoalPath(idx, goal)
                IN  IF ~v.exists \/ Exists(disk, path) \/ ~v.opens
                    THEN SkipItem
                    ELSE IF v.fps = 0
                    THEN pc' = "crashed" /\ UNCHANGED <<idx, plan, tried, last>>
                    ELSE StartCascade(GoalPlan(goal, v, path))
    /\ UNCHANGED <<script, annotations, window, clips_per_game, videos, events_with_time,
                   pairs, goal_events, shot_events, danger_zones, period, attempts,
                   clips_extracted, disk, accepted,
                   run, succeeded, stream, ndraws, extracted1,
                   workers, game, game_start, frames_dirs>>

\* "{game}_goal{i+1}_pos{position}.mkv"
MkvPath(k, goal) ==
    [kind |-> "mkv_clips", idx |-> k, period |-> 0,
     t1 |-> <<goal.position>>, t2 |-> <<>>, ext |-> "mkv"]

\* mkv_clips.py lines 71-74: timestamp = position / 25, 15 s before, 30 s long
MkvPlan(goal, path) ==
    [period |-> goal.gameTime.period,
     start_num |-> Max(0, goal.position - mkv_before * assumed_fps), start_eps |-> 0,
     dur_num |-> mkv_duration * assumed_fps, dur_eps |-> 0,
     den |-> assumed_fps, path |-> path]

\* mkv_clips.py lines 68-94 of one pass: no test on an existing output
ProcessMkvGoal ==
    /\ pc = "clip"
    /\ script = "mkv_clips"
    /\ LET goal == goal_events[idx]
       IN  IF ~goal.gameTime.wellformed
           THEN SkipItem
           ELSE IF ~(goal.gameTime.period \in {1, 2} /\ videos[goal.gameTime.period].exists)
           THEN SkipItem
           ELSE StartCascade(MkvPlan(goal, MkvPath(idx, goal)))
    /\ UNCHANGED <<script, annotations, window, clips_per_game, videos, events_with_time,
                   pairs, goal_events, shot_events, danger_zones, period, attempts,
                   clips_extracted, disk, accepted,
                   run, succeeded, stream, ndraws, extracted1,
                   workers, game, game_start, frames_dirs>>

-----------------------------------------------------------------------------
(* extract_background_clips (extract_background.py) *)

danger_buffer == 30
max_attempts == 50
min_time == 20
end_margin == 20
bg_duration == 15

\* lines 56-71: (period, max(0, t - 30), t + 30) for every Goal whose time parses
RECURSIVE DangerZones(_, _)
DangerZones(ann, k) ==
    IF k > Len(ann) THEN <<>>
    ELSE IF ann[k].label = "Goal" /\ ann[k].gameTime.wellformed
    THEN LET total_seconds == ann[k].gameTime.minutes * 60 + ann[k].gameTime.seconds
         IN  <<<<ann[k].gameTime.period, Max(0, total_seconds - danger_buffer),
                 total_seconds + danger_buffer>>>> \o DangerZones(ann, k + 1)
    ELSE DangerZones(ann, k + 1)

\* the zone test with its bounds excluded
is_strictly_in_danger_zone(p, clip_time, zones) ==
    \E n \in DOMAIN zones :
        zones[n][1] = p /\ zones[n][2] < clip_time /\ clip_time < zones[n][3]

\* lines 113-119: clip_time = random_minute * 60 + random_second
is_in_danger_zone(p, clip_time, zones) ==
    \E n \in DOMAIN zones :
        zones[n][1] = p /\ zones[n][2] <= clip_time /\ clip_time <= zones[n][3]

\* lines 79-87: the next period from p on whose video is there and opens; 3 if none
UsablePeriod(p) ==
    LET usable(q) == q <= 2 /\ videos[q].exists /\ videos[q].opens
    IN  IF usable(p) THEN p
        ELSE IF p < 2 /\ usable(p + 1) THEN p + 1
        ELSE 3

\* lines 94 and 101-104: duration = total_frames / fps if fps > 0 else 0;
\* max_time = max(20, duration - 20); "max_time <= min_time"
VideoTooShort(v) ==
    IF v.fps > 0 THEN v.total_frames <= (min_time + end_margin) * v.fps ELSE TRUE

\* a time t / Res lies in [min_time, max_time], where random.uniform draws
InDrawRange(t, v) ==
    /\ min_time * Res <= t
    /\ t * v.fps <= (v.total_frames - end_margin * v.fps) * Res

\* lines 33-77
BgStart ==
    /\ pc = "start"
    /\ script = "background"
    /\ danger_zones' = DangerZones(annotations, 1)
    /\ clips_extracted' = 0
    /\ attempts' = 0
    /\ period' = UsablePeriod(1)
    /\ pc' = (IF UsablePeriod(1) > 2 THEN "done" ELSE "draw")
    /\ UNCHANGED <<script, annotations, window, clips_per_game, videos, events_with_time,
                   pairs, goal_events, shot_events, idx, plan, disk, tried, last, accepted,
                   run, succeeded, stream, ndraws, extracted1,
                   workers, game, game_start, frames_dirs>>

\* the loop head without the bound on the attempts
keep_sampling_unbounded == clips_extracted < clips_per_game

\* line 97: while clips_extracted < clips_per_game and attempts < max_attempts
keep_sampling == clips_extracted < clips_per_game /\ attempts < max_attempts

\* the for loop moves to the next period (lines 207-209 and 79-87)
LeavePeriod ==
    IF clips_extracted >= clips_per_game
    THEN pc' = "done" /\ period' = period
    ELSE /\ period' = UsablePeriod(period + 1)
         /\ pc' = (IF UsablePeriod(period + 1) > 2 THEN "done" ELSE "draw")

\* the while condition of line 97 is false
BgLoopEnds ==
    /\ pc = "draw"
    /\ ~keep_sampling
    /\ LeavePeriod
    /\ UNCHANGED <<script, annotations, window, clips_per_game, videos, events_with_time,
                   pairs, goal_events, shot_events, danger_zones, idx, attempts,
                   clips_extracted, plan, disk, tried, last, accepted,
                   run, succeeded, stream, ndraws, extracted1,
                   workers, game, game_start, frames_dirs>>

\* lines 98-106: "Video too short for period": break
BgVideoTooShort ==
    /\ pc = "draw"
    /\ keep_sampling
    /\ attempts < MaxDraws
    /\ VideoTooShort(videos[period])
    /\ attempts' = attempts + 1
    /\ LeavePeriod
    /\ UNCHANGED <<script, annotations, window, clips_per_game, videos, events_with_time,
                   pairs, goal_events, shot_events, danger_zones, idx,
                   clips_extracted, plan, disk, tried, last, accepted,
                   run, succeeded, stream, ndraws, extracted1,
                   workers, game, game_start, frames_dirs>>

\* "{game}_background_{clips_extracted+1}_period{p}_{m}m{s}s.mkv"
BgPath(k, p, random_minute, random_second) ==
    [kind |-> "background", game |-> game, idx |-> k, period |-> p,
     t1 |-> <<random_minute, random_second>>, t2 |-> <<>>, ext |-> "mkv"]

\* random.seed(42) (line 267) fixes the values random.uniform returns: the
\* call number k of a run returns what call number k of the earlier run
\* returned when it is made with the same bounds
SeedAllows(t) ==
    ndraws < Len(stream) =>
        LET earlier == stream[ndraws + 1]
        IN  videos[earlier.period] = videos[period] => t = earlier.time

\* one pass of the while loop (lines 97-151) with random_time = t / Res; the
\* passes are followed as long as attempts is below cap
BgPass(t, cap) ==
    /\ pc = "draw"
    /\ keep_sampling
    /\ attempts < cap
    /\ ~VideoTooShort(videos[period])
    /\ InDrawRange(t, videos[period])
    /\ SeedAllows(t)
    /\ ndraws' = ndraws + 1
    /\ stream' = IF ndraws < Len(stream) THEN stream
                 ELSE Append(stream, [period |-> period, time |-> t])
    /\ attempts' = attempts + 1
    /\ LET whole         == t \div Res
           random_minute == whole \div 60
           random_second == whole % 60
           clip_time     == random_minute * 60 + random_second
           path          == BgPath(clips_extracted + 1, period, random_minute, random_second)
       IN  IF is_in_danger_zone(period, clip_time, danger_zones) \/ Exists(disk, path)
           THEN /\ pc' = "draw"
                /\ UNCHANGED <<idx, plan, tried, last, accepted>>
           ELSE /\ StartCascade([period |-> period, start_num |-> t, start_eps |-> 0,
                                 dur_num |-> bg_duration * Res, dur_eps |-> 0,
                                 den |-> Res, path |-> path])
                /\ accepted' = accepted \cup {[period |-> period, time |-> t]}
    /\ UNCHANGED <<script, annotations, window, clips_per_game, videos, events_with_time,
                   pairs, goal_events, shot_events, danger_zones, period,
                   clips_extracted, disk,
                   run, succeeded, extracted1,
                   workers, game, game_start, frames_dirs>>

\* a pass of a run whose first MaxDraws passes are followed
BgDraw(t) == BgPass(t, MaxDraws)
-----------------------------------------------------------------------------
(* The ffmpeg cascade of the current item *)

\* an invocation and its verdict are recorded; a first run also records
\* the paths it reports as extracted
Record(e) ==
    /\ tried' = Append(tried, [strategy |-> e.strategy, verdict |-> e.verdict])
    /\ last' = e
    /\ succeeded' = IF run = 1 /\ e.verdict = "success"
                    THEN succeeded \cup {e.path} ELSE succeeded

Counting == CorrScripts \cup {"background"}

Counted == clips_extracted' = IF script \in Counting THEN clips_extracted + 1
                             ELSE clips_extracted

\* the first command with the second one skipped after a failure
Strategy1SkipsSecond(o) ==
    /\ pc = "s1"
    /\ LET path == OutPath(script, 1, plan.path)
           d    == AfterTool(disk, path, o, 1)
       IN  IF o.raised
           THEN /\ Record(Tried(path, 1, disk, disk, o, "raised"))
                /\ clips_extracted' = clips_extracted
                /\ IF script \in CorrScripts
                   THEN \* except Exception: os.remove(output_path)
                        disk' = Remove(disk, path) /\ NextItem
                   ELSE IF script = "goals_fixed"
                   THEN \* except Exception: return
                        /\ disk' = disk /\ pc' = "done"
                        /\ UNCHANGED <<idx, plan>>
                   ELSE IF script = "mkv_clips"
                   THEN \* except Exception: go on with method 2
                        /\ disk' = disk /\ pc' = "s2"
                        /\ UNCHANGED <<idx, plan>>
                   ELSE \* except Exception: print
                        disk' = disk /\ NextItem
           ELSE IF JudgedOk(script, 1, d, path, o)
           THEN /\ disk' = d
                /\ Record(Tried(path, 1, disk, d, o, "success"))
                /\ Counted
                /\ NextItem
           ELSE /\ disk' = d
                /\ Record(Tried(path, 1, disk, d, o, "failed"))
                /\ clips_extracted' = clips_extracted
                /\ pc' = "s3"
                /\ UNCHANGED <<idx, plan>>
    /\ UNCHANGED <<script, annotations, window, clips_per_game, videos, events_with_time,
                   pairs, goal_events, shot_events, danger_zones, period, attempts,
                   accepted,
                   run, stream, ndraws, extracted1,
                   workers, game, game_start, frames_dirs>>

\* first command: stream copy
Strategy1(o) ==
    /\ pc = "s1"
    /\ LET path == OutPath(script, 1, plan.path)
           d    == AfterTool(disk, path, o, 1)
       IN  IF o.raised
           THEN /\ Record(Tried(path, 1, disk, disk, o, "raised"))
                /\ clips_extracted' = clips_extracted
                /\ IF script \in CorrScripts
                   THEN \* except Exception: os.remove(output_path)
                        disk' = Remove(disk, path) /\ NextItem
                   ELSE IF script = "goals_fixed"
                   THEN \* except Exception: return
                        /\ disk' = disk /\ pc' = "done"
                        /\ UNCHANGED <<idx, plan>>
                   ELSE IF script = "mkv_clips"
                   THEN \* except Exception: go on with method 2
                        /\ disk' = disk /\ pc' = "s2"
                        /\ UNCHANGED <<idx, plan>>
                   ELSE \* except Exception: print
                        disk' = disk /\ NextItem
           ELSE IF JudgedOk(script, 1, d, path, o)
           THEN /\ disk' = d
                /\ Record(Tried(path, 1, disk, d, o, "success"))
                /\ Counted
                /\ NextItem
           ELSE /\ disk' = d
                /\ Record(Tried(path, 1, disk, d, o, "failed"))
                /\ clips_extracted' = clips_extracted
                /\ pc' = "s2"
                /\ UNCHANGED <<idx, plan>>
    /\ UNCHANGED <<script, annotations, window, clips_per_game, videos, events_with_time,
                   pairs, goal_events, shot_events, danger_zones, period, attempts,
                   accepted,
                   run, stream, ndraws, extracted1,
                   workers, game, game_start, frames_dirs>>

\* second command: re-encoding
Strategy2(o) ==
    /\ pc = "s2"
    /\ LET path == OutPath(script, 2, plan.path)
           d    == AfterTool(disk, path, o, 2)
       IN  IF o.raised
           THEN /\ Record(Tried(path, 2, disk, disk, o, "raised"))
                /\ clips_extracted' = clips_extracted
                /\ IF script \in CorrScripts
                   THEN disk' = Remove(disk, path) /\ NextItem
                   ELSE IF script = "goals_fixed"
                   THEN /\ disk' = disk /\ pc' = "done"
                        /\ UNCHANGED <<idx, plan>>
                   ELSE IF script = "mkv_clips"
                   THEN /\ disk' = disk /\ pc' = "s3"
                        /\ UNCHANGED <<idx, plan>>
                   ELSE disk' = disk /\ NextItem
           ELSE IF JudgedOk(script, 2, d, path, o)
           THEN /\ disk' = d
                /\ Record(Tried(path, 2, disk, d, o, "success"))
                /\ Counted
                /\ NextItem
           ELSE /\ Record(Tried(path, 2, disk, d, o, "failed"))
                /\ clips_extracted' = clips_extracted
                /\ IF script \in CorrScripts
                   THEN \* the last command of these scripts: os.remove(output_path)
                        disk' = Remove(d, path) /\ NextItem
                   ELSE /\ disk' = d /\ pc' = "s3"
                        /\ UNCHANGED <<idx, plan>>
    /\ UNCHANGED <<script, annotations, window, clips_per_game, videos, events_with_time,
                   pairs, goal_events, shot_events, danger_zones, period, attempts,
                   accepted,
                   run, stream, ndraws, extracted1,
                   workers, game, game_start, frames_dirs>>

\* third command: other codec options, or the .mp4 container
Strategy3(o) ==
    /\ pc = "s3"
    /\ LET path == OutPath(script, 3, plan.path)
           d    == AfterTool(disk, path, o, 3)
       IN  IF o.raised
           THEN /\ Record(Tried(path, 3, disk, disk, o, "raised"))
                /\ clips_extracted' = clips_extracted
                /\ disk' = disk
           ELSE IF JudgedOk(script, 3, d, path, o)
           THEN /\ disk' = d
                /\ Record(Tried(path, 3, disk, d, o, "success"))
                /\ Counted
           ELSE /\ disk' = d
                /\ Record(Tried(path, 3, disk, d, o, "failed"))
                /\ clips_extracted' = clips_extracted
    /\ NextItem
    /\ UNCHANGED <<script, annotations, window, clips_per_game, videos, events_with_time,
                   pairs, goal_events, shot_events, danger_zones, period, attempts,
                   accepted,
                   run, stream, ndraws, extracted1,
                   workers, game, game_start, frames_dirs>>

-----------------------------------------------------------------------------
(* Inputs: the games the scripts are run on *)

SeqsUpTo(S, n) == UNION {[1..k -> S] : k \in 0..n}

\* "<period> - MM:SS" strings: 1:40 = 100 s, 1:44 = 104 s, 1:50 = 110 s,
\* 3:45 = 225 s
CorrStamps == {<<1, 1, 40>>, <<1, 1, 44>>, <<1, 3, 45>>, <<2, 1, 44>>}
ShotStamps == {<<1, 1, 40>>, <<1, 1, 50>>, <<2, 1, 44>>}
Positions == {250, 2500}
Windows == {3, 120}
ClipsPerGame == {1, 2}

LabelsOf(s) ==
    IF s = "penalty" THEN {"Foul", "Yellow card", "Penalty"}
    ELSE IF s = "freekick" THEN {"Direct free-kick", "Indirect free-kick", "Goal"}
    ELSE IF s \in {"mkv_clips", "into_mkv"} THEN {"Goal", "Offside"}
    ELSE {"Goal", "Shots on target"}

CorrRawEvents(s) ==
    {[gameTime |-> GameTime(t[1], t[2], t[3]), label |-> l] :
        t \in CorrStamps, l \in LabelsOf(s)}

ShotRawEvents(s) ==
    {[gameTime |-> GameTime(t[1], t[2], t[3]), label |-> l, position |-> q] :
        t \in ShotStamps, l \in LabelsOf(s), q \in Positions}

Goal(p, m, s) == [gameTime |-> GameTime(p, m, s), label |-> "Goal"]

\* annotation lists of the games background clips are drawn from
BgAnnotations ==
    {<<>>,
     <<Goal(1, 1, 40)>>,
     <<Goal(1, 1, 40), Goal(2, 1, 40)>>,
     <<[gameTime |-> GameTime(1, 2, 20), label |-> "Foul"], Goal(2, 0, 50)>>}

\* times / Res that random.uniform may return: around the zone [70, 130] of
\* a goal at 100 s, and 9 s after the first time past it
DrawTimes ==
    {69 * Res + (Res - 1), 70 * Res, 130 * Res + (Res - 1), 131 * Res, 140 * Res}

Video(frames, rate) == [exists |-> TRUE, opens |-> TRUE, fps |-> rate, total_frames |-> frames]
Video200   == Video(200 * 25, 25)
ShortVideo == Video(30 * 25, 25)
Video40    == Video(40 * 25, 25)
ZeroFps    == Video(200 * 25, 0)
Unopenable == [exists |-> TRUE, opens |-> FALSE, fps |-> 0, total_frames |-> 0]
NoVideo    == [exists |-> FALSE, opens |-> FALSE, fps |-> 0, total_frames |-> 0]

VideoChoices(s) ==
    IF s = "mkv_clips" THEN {<<Video200, Video200>>, <<Video200, NoVideo>>}
    ELSE IF s = "background"
    THEN {<<Video200, Video200>>, <<ShortVideo, Video200>>, <<NoVideo, Video200>>,
          <<Unopenable, ShortVideo>>, <<Video40, Video200>>}
    ELSE {<<Video200, Video200>>, <<Video200, NoVideo>>, <<Video200, ZeroFps>>}

Scripts == {"freekick", "penalty", "shots", "goals_fixed", "mkv_clips", "background"}

Init ==
    /\ script \in Scripts
    /\ annotations \in
         IF script \in CorrScripts THEN SeqsUpTo(CorrRawEvents(script), MaxEvents)
         ELSE IF script = "background" THEN BgAnnotations
         ELSE SeqsUpTo(ShotRawEvents(script), MaxShotEvents)
    /\ window \in IF script \in CorrScripts THEN Windows ELSE {0}
    /\ clips_per_game \in IF script = "background" THEN ClipsPerGame ELSE {0}
    /\ videos \in VideoChoices(script)
    /\ events_with_time = <<>>
    /\ pairs = <<>>
    /\ goal_events = <<>>
    /\ shot_events = <<>>
    /\ danger_zones = <<>>
    /\ pc = "start"
    /\ idx = 1
    /\ period = 1
    /\ attempts = 0
    /\ clips_extracted = 0
    /\ plan = NoPlan
    /\ disk = {}
    /\ tried = <<>>
    /\ last = NoInvocation
    /\ accepted = {}
    /\ run = 1
    /\ succeeded = {}
    /\ stream = <<>>
    /\ ndraws = 0
    /\ extracted1 = 0
    /\ workers = NoWorkers
    /\ game = 1
    /\ game_start = 0
    /\ frames_dirs = {}

Next ==
    \/ Correlate
    \/ ProcessPair
    \/ FilterShots
    \/ ProcessShot
    \/ ListGoals
    \/ ProcessGoal
    \/ ProcessMkvGoal
    \/ BgStart
    \/ BgVideoTooShort
    \/ \E t \in DrawTimes : BgDraw(t)
    \/ BgLoopEnds
    \/ \E o \in ToolOutcomes(script) : Strategy1(o)
    \/ \E o \in ToolOutcomes(script) : Strategy2(o)
    \/ \E o \in ToolOutcomes(script) : Strategy3(o)

Spec == Init /\ [][Next]_vars


-----------------------------------------------------------------------------
(* A second run of the same script on the same game and output directory *)

\* the script is started again: the annotations, the videos and the files
\* of the output directory are those the first run left; random.seed(42)
\* restarts the stream of random.uniform
Rerun ==
    /\ pc \in {"done", "crashed"}
    /\ run = 1
    /\ run' = 2
    /\ extracted1' = clips_extracted
    /\ ndraws' = 0
    /\ pc' = "start"
    /\ events_with_time' = <<>>
    /\ pairs' = <<>>
    /\ goal_events' = <<>>
    /\ shot_events' = <<>>
    /\ danger_zones' = <<>>
    /\ idx' = 1
    /\ period' = 1
    /\ attempts' = 0
    /\ clips_extracted' = 0
    /\ plan' = NoPlan
    /\ tried' = <<>>
    /\ last' = NoInvocation
    /\ accepted' = {}
    /\ UNCHANGED <<script, annotations, window, clips_per_game, videos, disk,
                   succeeded, stream, workers, game, game_start, frames_dirs>>

Record1(p, m, s, l, q) == [gameTime |-> GameTime(p, m, s), label |-> l, position |-> q]

\* the games that are run twice
RerunAnnotations(s) ==
    IF s = "freekick"
    THEN {<<Record1(1, 1, 40, "Direct free-kick", 0), Record1(1, 1, 44, "Goal", 0)>>,
          <<Record1(1, 1, 40, "Direct free-kick", 0), Record1(1, 1, 44, "Goal", 0),
            Record1(1, 1, 44, "Goal", 0)>>}
    ELSE IF s = "penalty"
    THEN {<<Record1(1, 1, 40, "Foul", 0), Record1(1, 1, 44, "Penalty", 0)>>,
          <<Record1(1, 1, 40, "Foul", 0), Record1(1, 1, 44, "Penalty", 0),
            Record1(1, 1, 44, "Penalty", 0)>>}
    ELSE IF s = "background" THEN BgAnnotations
    ELSE {<<Record1(1, 1, 40, "Goal", 250), Record1(1, 1, 50, "Shots on target", 2500)>>,
          <<Record1(1, 1, 40, "Goal", 250), Record1(2, 1, 44, "Goal", 2500)>>,
          <<Record1(1, 1, 40, "Shots on target", 250),
            Record1(2, 1, 44, "Shots on target", 2500)>>}

RerunScripts == {"freekick", "penalty", "shots", "goals_fixed", "background"}

InitRerun ==
    /\ script \in RerunScripts
    /\ annotations \in RerunAnnotations(script)
    /\ window \in IF script \in CorrScripts THEN {120} ELSE {0}
    /\ clips_per_game \in IF script = "background" THEN ClipsPerGame ELSE {0}
    /\ videos \in IF script = "background"
                  THEN {<<Video200, Video200>>, <<ShortVideo, Video200>>}
                  ELSE {<<Video200, Video200>>}
    /\ events_with_time = <<>>
    /\ pairs = <<>>
    /\ goal_events = <<>>
    /\ shot_events = <<>>
    /\ danger_zones = <<>>
    /\ pc = "start"
    /\ idx = 1
    /\ period = 1
    /\ attempts = 0
    /\ clips_extracted = 0
    /\ plan = NoPlan
    /\ disk = {}
    /\ tried = <<>>
    /\ last = NoInvocation
    /\ accepted = {}
    /\ run = 1
    /\ succeeded = {}
    /\ stream = <<>>
    /\ ndraws = 0
    /\ extracted1 = 0
    /\ workers = NoWorkers
    /\ game = 1
    /\ game_start = 0
    /\ frames_dirs = {}

NextRerun ==
    \/ Correlate
    \/ ProcessPair
    \/ FilterShots
    \/ ProcessShot
    \/ ListGoals
    \/ ProcessGoal
    \/ BgStart
    \/ BgVideoTooShort
    \/ \E t \in DrawTimes : BgDraw(t)
    \/ BgLoopEnds
    \/ \E o \in ToolOutcomes(script) : Strategy1(o)
    \/ \E o \in ToolOutcomes(script) : Strategy2(o)
    \/ \E o \in ToolOutcomes(script) : Strategy3(o)
    \/ Rerun

SpecRerun == InitRerun /\ [][NextRerun]_vars

-----------------------------------------------------------------------------
(* Games with events at the edges: a gameTime that does not parse, a period *)
(* number other than 1 or 2, a negative minutes field, events in the first *)
(* seconds of a period, a video that ends just after a planned start       *)

\* a gameTime that is missing, has no " - " or has a part int() rejects
Malformed == [wellformed |-> FALSE, period |-> 0, minutes |-> 0, seconds |-> 0]

\* "1 - 00:01", "1 - 00:02", "1 - 01:40", "3 - 01:40", "1 - -1:30"
EdgeTimes ==
    {GameTime(1, 0, 1), GameTime(1, 0, 2), GameTime(1, 1, 40), GameTime(3, 1, 40),
     GameTime(1, 0 - 1, 30), Malformed}

EdgeLabels(s) == IF s = "penalty" THEN {"Foul", "Penalty"}
                 ELSE {"Direct free-kick", "Goal"}

EdgeRawEvents(s) == {[gameTime |-> g, label |-> l] : g \in EdgeTimes, l \in EdgeLabels(s)}

\* period videos of 86 s and of one frame less
Video86 == Video(86 * 25, 25)
Video86Less == Video((86 * 25) - 1, 25)

InitEdge ==
    /\ script \in CorrScripts
    /\ annotations \in SeqsUpTo(EdgeRawEvents(script), MaxEvents)
    /\ window = 120
    /\ clips_per_game = 0
    /\ videos \in {<<Video86, Video200>>, <<Video86Less, Video200>>}
    /\ events_with_time = <<>>
    /\ pairs = <<>>
    /\ goal_events = <<>>
    /\ shot_events = <<>>
    /\ danger_zones = <<>>
    /\ pc = "start"
    /\ idx = 1
    /\ period = 1
    /\ attempts = 0
    /\ clips_extracted = 0
    /\ plan = NoPlan
    /\ disk = {}
    /\ tried = <<>>
    /\ last = NoInvocation
    /\ accepted = {}
    /\ run = 1
    /\ succeeded = {}
    /\ stream = <<>>
    /\ ndraws = 0
    /\ extracted1 = 0
    /\ workers = NoWorkers
    /\ game = 1
    /\ game_start = 0
    /\ frames_dirs = {}

NextEdge ==
    \/ Correlate
    \/ ProcessPair
    \/ \E o \in ToolOutcomes(script) : Strategy1(o)
    \/ \E o \in ToolOutcomes(script) : Strategy2(o)

SpecEdge == InitEdge /\ [][NextEdge]_vars

-----------------------------------------------------------------------------
(* Two processes of a correlation script working on the same pair of the    *)
(* same game into the same output directory.  Each runs the body of the    *)
(* loop over the pairs; the directory is all they share.  subprocess.run   *)
(* is two steps, the start of ffmpeg and its return, as the other process  *)
(* runs meanwhile.                                                          *)

Workers == {1, 2}

WorkerAt(w, where) == workers # NoWorkers /\ workers[w].pc = where

Moved(w, where, verdict) ==
    workers' = [workers EXCEPT ![w].pc = where, ![w].verdict = verdict]

\* extract_free_kicks_goals.py lines 134-141: the clip is named and skipped
\* when a file of that name exists
WorkerCheck(w) ==
    /\ WorkerAt(w, "check")
    /\ IF Exists(disk, plan.path)
       THEN Moved(w, "done", "skipped")
       ELSE Moved(w, "s1", "none")
    /\ UNCHANGED <<script, annotations, window, clips_per_game, videos, events_with_time,
                   pairs, goal_events, shot_events, danger_zones, pc, idx, period,
                   attempts, clips_extracted, plan, disk, tried, last, accepted,
                   run, succeeded, stream, ndraws, extracted1,
                   game, game_start, frames_dirs>>

\* lines 188 and 208: subprocess.run starts ffmpeg -y on the output path
WorkerLaunch(w) ==
    /\ workers # NoWorkers
    /\ workers[w].pc \in {"s1", "s2"}
    /\ workers' = [workers EXCEPT ![w].pc = IF workers[w].pc = "s1" THEN "run1" ELSE "run2",
                                  ![w].ran = workers[w].ran + 1]
    /\ UNCHANGED <<script, annotations, window, clips_per_game, videos, events_with_time,
                   pairs, goal_events, shot_events, danger_zones, pc, idx, period,
                   attempts, clips_extracted, plan, disk, tried, last, accepted,
                   run, succeeded, stream, ndraws, extracted1,
                   game, game_start, frames_dirs>>

\* lines 188-222: ffmpeg returns; the tests on its result, the fallback, the
\* removal of the file after the last failure or an exception
WorkerReturn(w, o) ==
    /\ workers # NoWorkers
    /\ workers[w].pc \in {"run1", "run2"}
    /\ LET strategy == IF workers[w].pc = "run1" THEN 1 ELSE 2
           d        == AfterTool(disk, plan.path, o, strategy)
       IN  IF o.raised
           THEN disk' = Remove(disk, plan.path) /\ Moved(w, "done", "raised")
           ELSE IF JudgedOk(script, strategy, d, plan.path, o)
           THEN disk' = d /\ Moved(w, "done", "success")
           ELSE IF strategy = 1
           THEN disk' = d /\ Moved(w, "s2", "none")
           ELSE disk' = Remove(d, plan.path) /\ Moved(w, "done", "failed")
    /\ UNCHANGED <<script, annotations, window, clips_per_game, videos, events_with_time,
                   pairs, goal_events, shot_events, danger_zones, pc, idx, period,
                   attempts, clips_extracted, plan, tried, last, accepted,
                   run, succeeded, stream, ndraws, extracted1,
                   game, game_start, frames_dirs>>

\* games with one trigger/outcome pair
WorkerAnnotations(s) ==
    {<<[gameTime |-> GameTime(1, 1, 40), label |-> t],
       [gameTime |-> GameTime(1, 1, 44), label |-> outcome_label(s)]>> :
        t \in trigger_labels(s)}
    \cup
    {<<[gameTime |-> GameTime(1, 3, 45), label |-> t],
       [gameTime |-> GameTime(1, 3, 45), label |-> outcome_label(s)]>> :
        t \in trigger_labels(s)}

\* both processes have listed the pairs and are at the first pair
InitWorkers ==
    /\ script \in CorrScripts
    /\ annotations \in WorkerAnnotations(script)
    /\ window = 120
    /\ clips_per_game = 0
    /\ videos = <<Video200, Video200>>
    /\ events_with_time = SortEvents(CollectEvents(annotations, 1))
    /\ pairs = FindPairs(events_with_time, 1, outcome_label(script),
                         trigger_labels(script), window)
    /\ goal_events = <<>>
    /\ shot_events = <<>>
    /\ danger_zones = <<>>
    /\ pc = "workers"
    /\ idx = 1
    /\ period = 1
    /\ attempts = 0
    /\ clips_extracted = 0
    /\ LET out  == events_with_time[pairs[1].outcome]
           trig == events_with_time[pairs[1].trigger]
           path == ClipPath(script, 1, out.period, trig, out)
       IN  plan = IF script = "penalty"
                  THEN PenaltyPlan(trig.period, trig.time_seconds, videos[trig.period], path)
                  ELSE FreekickPlan(out.period, out.time_seconds, path)
    /\ disk = {}
    /\ tried = <<>>
    /\ last = NoInvocation
    /\ accepted = {}
    /\ run = 1
    /\ succeeded = {}
    /\ stream = <<>>
    /\ ndraws = 0
    /\ extracted1 = 0
    /\ workers = [w \in Workers |-> [pc |-> "check", ran |-> 0, verdict |-> "none"]]
    /\ game = 1
    /\ game_start = 0
    /\ frames_dirs = {}

NextWorkers ==
    \/ \E w \in Workers : WorkerCheck(w)
    \/ \E w \in Workers : WorkerLaunch(w)
    \/ \E w \in Workers : \E o \in ToolOutcomes(script) : WorkerReturn(w, o)

SpecWorkers == InitWorkers /\ [][NextWorkers]_vars

-----------------------------------------------------------------------------
(* process_all_games of extract_background.py: the games of the data       *)
(* directory are processed one after the other by one process, after one   *)
(* random.seed(42)                                                          *)

\* annotations and period videos of the games of the data directory
GameAnnotations == {<<>>, <<Goal(1, 1, 40)>>}
GameVideos == {<<Video200, Video200>>, <<NoVideo, Video200>>}

\* times / Res drawn in these games: 70 s, in the zone of the goal at 100 s,
\* and 131 s, past it
GameDrawTimes == {70 * Res, 131 * Res}

\* ffmpeg in these games: a good file and status 0, or status 1 and no file
GameOutcomes ==
    {[raised |-> FALSE, rc |-> 0, write |-> min_output_bytes + 1],
     [raised |-> FALSE, rc |-> 1, write |-> NoWrite]}

\* lines 238-251: extract_background_clips has returned and is called for
\* the next game; the generator goes on from where the last game left it
NextGame ==
    /\ script = "background"
    /\ pc = "done"
    /\ game < MaxGames
    /\ game' = game + 1
    /\ game_start' = ndraws
    /\ annotations' \in GameAnnotations
    /\ videos' \in GameVideos
    /\ pc' = "start"
    /\ plan' = NoPlan
    /\ tried' = <<>>
    /\ last' = NoInvocation
    /\ accepted' = {}
    /\ UNCHANGED <<script, window, clips_per_game, events_with_time, pairs, goal_events,
                   shot_events, danger_zones, idx, period, attempts, clips_extracted,
                   disk, run, succeeded, stream, ndraws, extracted1,
                   workers, frames_dirs>>

InitGames ==
    /\ script = "background"
    /\ annotations \in GameAnnotations
    /\ window = 0
    /\ clips_per_game = 1
    /\ videos \in GameVideos
    /\ events_with_time = <<>>
    /\ pairs = <<>>
    /\ goal_events = <<>>
    /\ shot_events = <<>>
    /\ danger_zones = <<>>
    /\ pc = "start"
    /\ idx = 1
    /\ period = 1
    /\ attempts = 0
    /\ clips_extracted = 0
    /\ plan = NoPlan
    /\ disk = {}
    /\ tried = <<>>
    /\ last = NoInvocation
    /\ accepted = {}
    /\ run = 1
    /\ succeeded = {}
    /\ stream = <<>>
    /\ ndraws = 0
    /\ extracted1 = 0
    /\ workers = NoWorkers
    /\ game = 1
    /\ game_start = 0
    /\ frames_dirs = {}

NextGames ==
    \/ BgStart
    \/ \E t \in GameDrawTimes : BgDraw(t)
    \/ BgLoopEnds
    \/ \E o \in GameOutcomes : Strategy1(o)
    \/ \E o \in GameOutcomes : Strategy2(o)
    \/ \E o \in GameOutcomes : Strategy3(o)
    \/ NextGame

SpecGames == InitGames /\ [][NextGames]_vars

-----------------------------------------------------------------------------
(* The sampling loop of extract_background_clips followed to its end: the  *)
(* values the seeded generator returns are fixed beforehand, and every     *)
(* pass the while loop can make is followed (a pass number 51 included,    *)
(* should the loop make one)                                               *)

\* times / Res the generator returns: 70 s, in the zone of a goal at 100 s,
\* and 131 s, past it
LoopTimes == {70 * Res, 131 * Res}

\* the first max_attempts values of the generator, drawn with the bounds of
\* the video of period p: the same value again and again, or the two in turn
LoopStreams(p) ==
    {[k \in 1..max_attempts |-> [period |-> p, time |-> t]] : t \in LoopTimes}
    \cup {[k \in 1..max_attempts |->
              [period |-> p, time |-> IF k % 2 = 1 THEN 70 * Res ELSE 131 * Res]]}

\* ffmpeg in these runs: a good file and status 0, status 1 and no file, or
\* status 1 and a file of 1000 bytes
LoopOutcomes ==
    {[raised |-> FALSE, rc |-> 0, write |-> min_output_bytes + 1],
     [raised |-> FALSE, rc |-> 1, write |-> NoWrite],
     [raised |-> FALSE, rc |-> 1, write |-> min_output_bytes]}

InitLoop ==
    /\ script = "background"
    /\ annotations \in {<<>>, <<Goal(1, 1, 40)>>, <<Goal(1, 1, 40), Goal(2, 1, 40)>>}
    /\ window = 0
    /\ clips_per_game \in ClipsPerGame
    /\ videos \in {<<Video200, Video200>>, <<ShortVideo, Video200>>}
    /\ events_with_time = <<>>
    /\ pairs = <<>>
    /\ goal_events = <<>>
    /\ shot_events = <<>>
    /\ danger_zones = <<>>
    /\ pc = "start"
    /\ idx = 1
    /\ period = 1
    /\ attempts = 0
    /\ clips_extracted = 0
    /\ plan = NoPlan
    /\ disk = {}
    /\ tried = <<>>
    /\ last = NoInvocation
    /\ accepted = {}
    /\ run = 1
    /\ succeeded = {}
    /\ stream \in LoopStreams(IF VideoTooShort(videos[1]) THEN 2 ELSE 1)
    /\ ndraws = 0
    /\ extracted1 = 0
    /\ workers = NoWorkers
    /\ game = 1
    /\ game_start = 0
    /\ frames_dirs = {}

NextLoop ==
    \/ BgStart
    \/ BgVideoTooShort
    \/ \E t \in LoopTimes : BgPass(t, max_attempts + 1)
    \/ BgLoopEnds
    \/ \E o \in LoopOutcomes : Strategy1(o)
    \/ \E o \in LoopOutcomes : Strategy2(o)
    \/ \E o \in LoopOutcomes : Strategy3(o)

\* the script is one sequential process and every call it makes returns: a
\* step that can be taken is taken
SpecLoop == InitLoop /\ [][NextLoop]_vars /\ WF_vars(NextLoop)

-----------------------------------------------------------------------------
(* extract_clips of extract/extract_into_mkv.py: a direct ffmpeg copy, a    *)
(* fallback that decodes the frames and reassembles them with ffmpeg, and  *)
(* at last a directory of single frames                                    *)

into_mkv_seconds == 15

\* "{game}_{position}.mkv"
IntoMkvPath(goal) ==
    [kind |-> "into_mkv", idx |-> 0, period |-> 0,
     t1 |-> <<goal.position>>, t2 |-> <<>>, ext |-> "mkv"]

\* lines 73-74 and 100-103: timestamp = position / 25, start 15 s before it,
\* 15 s long; the frame numbers are taken with the frame rate of the video
IntoMkvPlan(goal) ==
    [period |-> goal.gameTime.period,
     start_num |-> Max(0, goal.position - into_mkv_seconds * assumed_fps), start_eps |-> 0,
     dur_num |-> into_mkv_seconds * assumed_fps, dur_eps |-> 0,
     den |-> assumed_fps, path |-> IntoMkvPath(goal)]

\* lines 101-102: start_frame = int(start_time * fps), end_frame = start + 15 * fps
StartFrame(pl, v) == (pl.start_num * v.fps) \div pl.den
EndFrame(pl, v) == StartFrame(pl, v) + into_mkv_seconds * v.fps

\* lines 198-209: the frames cap.read() returns from start_frame on, until
\* the position passes end_frame or the video ends
FramesRead(pl, v) ==
    Max(0, Min(EndFrame(pl, v), v.total_frames) - StartFrame(pl, v))

\* lines 72-113 of one pass: the video of the half, the output name, the
\* capture
ProcessIntoMkvGoal ==
    /\ pc = "clip"
    /\ script = "into_mkv"
    /\ LET goal == goal_events[idx]
           half == goal.gameTime.period
       IN  IF ~(half \in {1, 2} /\ videos[half].exists)
           THEN \* "Video file not found": continue
                SkipItem
           ELSE IF ~videos[half].opens
           THEN \* "Error opening video file": continue
                SkipItem
           ELSE /\ plan' = IntoMkvPlan(goal)
                /\ pc' = "direct"
                /\ idx' = idx
                /\ tried' = <<>>
                /\ last' = NoInvocation
    /\ UNCHANGED <<script, annotations, window, clips_per_game, videos, events_with_time,
                   pairs, goal_events, shot_events, danger_zones, period, attempts,
                   clips_extracted, disk, accepted,
                   run, succeeded, stream, ndraws, extracted1,
                   workers, game, game_start, frames_dirs>>

\* lines 115-137: subprocess.run(ffmpeg_cmd, check=True); FileNotFoundError
\* and CalledProcessError are caught and lead to the fallback
DirectExtraction(o) ==
    /\ pc = "direct"
    /\ LET d == AfterTool(disk, plan.path, o, 1)
       IN  IF o.raised
           THEN /\ disk' = disk
                /\ Record(Tried(plan.path, 1, disk, disk, o, "raised"))
                /\ pc' = "fallback" /\ UNCHANGED <<idx, plan>>
           ELSE IF o.rc = 0 /\ Exists(d, plan.path) /\ GetSize(d, plan.path) > 0
           THEN /\ disk' = d
                /\ Record(Tried(plan.path, 1, disk, d, o, "success"))
                /\ NextItem
           ELSE /\ disk' = d
                /\ Record(Tried(plan.path, 1, disk, d, o, "failed"))
                /\ pc' = "fallback" /\ UNCHANGED <<idx, plan>>
    /\ UNCHANGED <<script, annotations, window, clips_per_game, videos, events_with_time,
                   pairs, goal_events, shot_events, danger_zones, period, attempts,
                   clips_extracted, accepted,
                   run, stream, ndraws, extracted1,
                   workers, game, game_start, frames_dirs>>

\* lines 140-186: the frames are decoded into a temporary directory; if
\* there are any, ffmpeg reassembles them; every exception is caught and
\* the temporary directory is removed
FallbackExtraction(o) ==
    /\ pc = "fallback"
    /\ LET frame_count == FramesRead(plan, videos[plan.period])
           d           == AfterTool(disk, plan.path, o, 2)
       IN  IF frame_count > 0
           THEN IF o.raised
                THEN /\ disk' = disk
                     /\ Record(Tried(plan.path, 2, disk, disk, o, "raised"))
                ELSE /\ disk' = d
                     /\ Record(Tried(plan.path, 2, disk, d, o,
                                     IF /\ o.rc = 0 /\ Exists(d, plan.path)
                                        /\ GetSize(d, plan.path) > 0
                                     THEN "success" ELSE "failed"))
           ELSE \* "No frames were extracted"
                UNCHANGED <<disk, tried, last, succeeded>>
    /\ pc' = "final"
    /\ UNCHANGED <<script, annotations, window, clips_per_game, videos, events_with_time,
                   pairs, goal_events, shot_events, danger_zones, idx, period, attempts,
                   clips_extracted, plan, accepted,
                   run, stream, ndraws, extracted1,
                   workers, game, game_start, frames_dirs>>

\* lines 190-213: if no output file is there or it is empty, a directory
\* named after the clip receives the frames of the interval
FinalCheck ==
    /\ pc = "final"
    /\ frames_dirs' =
          IF ~Exists(disk, plan.path) \/ GetSize(disk, plan.path) = 0
          THEN {fd \in frames_dirs : fd.path # plan.path}
                   \cup {[path |-> plan.path,
                          frames |-> FramesRead(plan, videos[plan.period])]}
          ELSE frames_dirs
    /\ NextItem
    /\ UNCHANGED <<script, annotations, window, clips_per_game, videos, events_with_time,
                   pairs, goal_events, shot_events, danger_zones, period, attempts,
                   clips_extracted, disk, tried, last, accepted,
                   run, succeeded, stream, ndraws, extracted1,
                   workers, game, game_start>>

InitFrames ==
    /\ script = "into_mkv"
    /\ annotations \in SeqsUpTo(ShotRawEvents(script), MaxShotEvents)
    /\ window = 0
    /\ clips_per_game = 0
    /\ videos \in {<<Video200, Video200>>, <<Video200, NoVideo>>,
                   <<Video200, Unopenable>>, <<ShortVideo, ZeroFps>>}
    /\ events_with_time = <<>>
    /\ pairs = <<>>
    /\ goal_events = <<>>
    /\ shot_events = <<>>
    /\ danger_zones = <<>>
    /\ pc = "start"
    /\ idx = 1
    /\ period = 1
    /\ attempts = 0
    /\ clips_extracted = 0
    /\ plan = NoPlan
    /\ disk = {}
    /\ tried = <<>>
    /\ last = NoInvocation
    /\ accepted = {}
    /\ run = 1
    /\ succeeded = {}
    /\ stream = <<>>
    /\ ndraws = 0
    /\ extracted1 = 0
    /\ workers = NoWorkers
    /\ game = 1
    /\ game_start = 0
    /\ frames_dirs = {}

NextFrames ==
    \/ ListGoals
    \/ ProcessIntoMkvGoal
    \/ \E o \in ToolOutcomes(script) : DirectExtraction(o)
    \/ \E o \in ToolOutcomes(script) : FallbackExtraction(o)
    \/ FinalCheck

SpecFrames == InitFrames /\ [][NextFrames]_vars
-----------------------------------------------------------------------------
(* Properties of the backward scan *)

Correlated == pc # "start" /\ script \in CorrScripts

IsOutcome(i) == events_with_time[i].label = outcome_label(script)
IsTrigger(k) == events_with_time[k].label \in trigger_labels(script)
Elapsed(i, k) == events_with_time[i].time_seconds - events_with_time[k].time_seconds
SamePeriod(i, k) == events_with_time[i].period = events_with_time[k].period

\* trigger-labelled events of the period of i whose timestamp is within the
\* window before (or at) the timestamp of i
InWindow(i) ==
    {k \in DOMAIN events_with_time :
        /\ k # i /\ IsTrigger(k) /\ SamePeriod(i, k)
        /\ 0 <= Elapsed(i, k) /\ Elapsed(i, k) <= window}

\* those of them that precede i in the sorted sequence
InWindowBefore(i) == {k \in InWindow(i) : k < i}

PairsOf(i) == {n \in DOMAIN pairs : pairs[n].outcome = i}

SetMax(S) == CHOOSE x \in S : \A y \in S : y <= x

\* C1 as stated: every outcome with a trigger-labelled event of its period
\* at 0 <= outcome.time - trigger.time <= window gets exactly one pair, whose
\* trigger has the greatest timestamp among those events.
C1_AsStated ==
    Correlated =>
        \A i \in DOMAIN events_with_time :
            (IsOutcome(i) /\ InWindow(i) # {}) =>
                /\ Cardinality(PairsOf(i)) = 1
                /\ \A n \in PairsOf(i) : \A k \in InWindow(i) :
                       events_with_time[k].time_seconds
                           <= events_with_time[pairs[n].trigger].time_seconds

\* C1 amended: every outcome with a trigger-labelled event of its period that
\* precedes it in the sorted sequence and lies within the window gets exactly
\* one pair, whose trigger is the last such event of the sorted sequence (the
\* most recent one: none of them has a greater timestamp).
C1_MostRecentTrigger ==
    Correlated =>
        \A i \in DOMAIN events_with_time :
            (IsOutcome(i) /\ InWindowBefore(i) # {}) =>
                /\ Cardinality(PairsOf(i)) = 1
                /\ \A n \in PairsOf(i) :
                       /\ pairs[n].trigger = SetMax(InWindowBefore(i))
                       /\ \A k \in InWindowBefore(i) :
                              events_with_time[k].time_seconds
                                  <= events_with_time[pairs[n].trigger].time_seconds

\* an outcome with two triggers of different timestamps in its window has
\* been paired
C1_Witness ==
    /\ Correlated
    /\ \E i \in DOMAIN events_with_time :
           /\ IsOutcome(i) /\ PairsOf(i) # {}
           /\ \E k1, k2 \in InWindowBefore(i) :
                  events_with_time[k1].time_seconds < events_with_time[k2].time_seconds

\* C2: every reported pair has trigger and outcome in one period, the trigger
\* before the outcome in the sorted sequence and 0 <= elapsed <= window; an
\* outcome whose trigger-labelled events are all in the other period or more
\* than window seconds earlier has no pair; no outcome has two pairs.
C2_PairsWithinWindow ==
    Correlated =>
        /\ \A n \in DOMAIN pairs :
               LET i == pairs[n].outcome
                   k == pairs[n].trigger
               IN  /\ IsOutcome(i) /\ IsTrigger(k)
                   /\ SamePeriod(i, k)
                   /\ k < i
                   /\ 0 <= Elapsed(i, k) /\ Elapsed(i, k) <= window
        /\ \A i \in DOMAIN events_with_time :
               /\ Cardinality(PairsOf(i)) <= 1
               /\ (\A k \in DOMAIN events_with_time :
                      IsTrigger(k) => (~SamePeriod(i, k) \/ Elapsed(i, k) > window))
                   => PairsOf(i) = {}

\* an outcome with a trigger of its period too far back and one in the other
\* period is left without a pair while another outcome is paired
C2_Witness ==
    /\ Correlated
    /\ pairs # <<>>
    /\ \E i \in DOMAIN events_with_time :
           /\ IsOutcome(i) /\ PairsOf(i) = {}
           /\ \E k \in DOMAIN events_with_time :
                  IsTrigger(k) /\ SamePeriod(i, k) /\ Elapsed(i, k) > window

-----------------------------------------------------------------------------
(* The scenario [Foul at 1 - 01:40, Penalty at 1 - 01:44], window 120 *)

FoulPenaltyScenario ==
    /\ script = "penalty"
    /\ window = 120
    /\ annotations = <<[gameTime |-> GameTime(1, 1, 40), label |-> "Foul"],
                       [gameTime |-> GameTime(1, 1, 44), label |-> "Penalty"]>>
    /\ videos[1] = Video200

ScenarioPair ==
    /\ Len(pairs) = 1
    /\ events_with_time[pairs[1].trigger].time_seconds = 100
    /\ events_with_time[pairs[1].trigger].label = "Foul"
    /\ events_with_time[pairs[1].outcome].time_seconds = 104
    /\ events_with_time[pairs[1].outcome].label = "Penalty"

\* the planned start and duration are the given numbers of seconds
PlanIs(start_sec, duration_sec) ==
    /\ plan.start_num = start_sec * plan.den /\ plan.start_eps = 0
    /\ plan.dur_num = duration_sec * plan.den /\ plan.dur_eps = 0

\* C3 as stated: one pair (trigger@100, outcome@104), and the clip planned as
\* period 1, start 89 s, duration 15 s.
C3_AsStated ==
    (FoulPenaltyScenario /\ pc = "s1") =>
        (ScenarioPair /\ plan.period = 1 /\ PlanIs(89, 15))

\* C3 amended: one pair (trigger@100, outcome@104), and the clip planned as
\* period 1, start 85 s (15 s before the trigger at 100 s), duration 15 s.
C3_StartAnchoredPlan ==
    /\ (FoulPenaltyScenario /\ pc # "start") => ScenarioPair
    /\ (FoulPenaltyScenario /\ pc = "s1") => (plan.period = 1 /\ PlanIs(85, 15))

C3_Witness == FoulPenaltyScenario /\ pc = "s1" /\ idx = 1

-----------------------------------------------------------------------------
(* Properties of the goal exclusion *)

\* the Goal records of the annotation list whose time parses
GoalRecordsAt(p) ==
    {k \in DOMAIN annotations :
        /\ annotations[k].label = "Goal"
        /\ annotations[k].gameTime.wellformed
        /\ annotations[k].gameTime.period = p}

SecondsOf(k) ==
    annotations[k].gameTime.minutes * 60 + annotations[k].gameTime.seconds

\* C4: no background sample for which an extraction is attempted lies within
\* [goal_time - 30, goal_time + 30] of a Goal of its period; on a 200 s
\* period with a goal at 100 s no such sample lies in [70, 130].
C4_NoSampleNearGoal ==
    script = "background" =>
        \A a \in accepted :
            /\ \A k \in GoalRecordsAt(a.period) :
                  ~(/\ (SecondsOf(k) - 30) * Res <= a.time
                    /\ a.time <= (SecondsOf(k) + 30) * Res)
            /\ (/\ annotations # <<>>
                /\ annotations[1] = Goal(1, 1, 40)
                /\ a.period = 1
                /\ videos[1] = Video200)
               => ~(70 * Res <= a.time /\ a.time <= 130 * Res)

\* on the 200 s period with its goal at 100 s, a sample just before 70 s and
\* one just after 130 s have been accepted
C4_Witness ==
    /\ script = "background"
    /\ videos[1] = Video200
    /\ annotations # <<>> /\ annotations[1] = Goal(1, 1, 40)
    /\ \E a, b \in accepted :
          /\ a.period = 1 /\ b.period = 1
          /\ a.time < 70 * Res /\ a.time > 69 * Res
          /\ b.time = 131 * Res

\* C5: the bounds of the exclusion interval are inclusive in both uses: no
\* shot that is kept lies exactly 10 s before or after a Goal of its period,
\* and no background sample is accepted exactly 30 s before or after one.
C5_InclusiveBounds ==
    /\ (script = "shots" /\ pc # "start") =>
          \A n \in DOMAIN shot_events :
              \A k \in GoalRecordsAt(shot_events[n].period) :
                  LET shot_time == shot_events[n].minutes * 60 + shot_events[n].seconds
                  IN  /\ shot_time # SecondsOf(k) - near_goal_seconds
                      /\ shot_time # SecondsOf(k) + near_goal_seconds
    /\ script = "background" =>
          \A a \in accepted :
              \A k \in GoalRecordsAt(a.period) :
                  /\ a.time # (SecondsOf(k) - danger_buffer) * Res
                  /\ a.time # (SecondsOf(k) + danger_buffer) * Res

\* C6: no two background samples of one period for which an extraction is
\* attempted are less than 15 s apart.
C6_SamplesApart ==
    script = "background" =>
        \A a, b \in accepted :
            (a # b /\ a.period = b.period) =>
                Abs(a.time - b.time) >= bg_duration * Res

-----------------------------------------------------------------------------
(* Properties of the strategy cascade *)

InCascade == pc \in {"s1", "s2", "s3"}
CascadeEnded == ~InCascade /\ tried # <<>>
ThreeStrategyScripts == {"shots", "goals_fixed", "mkv_clips"}

InOrder == \A n \in DOMAIN tried : tried[n].strategy = n
OnlyLastSucceeds ==
    \A n \in DOMAIN tried : n < Len(tried) => tried[n].verdict # "success"
Succeeded == tried # <<>> /\ tried[Len(tried)].verdict = "success"

\* C7 as stated: strategies run in the order 1, 2, 3, each after the one
\* before it failed, none after a success, and the cascade ends with one
\* success or with all three strategies run.
C7_AsStated ==
    script \in ThreeStrategyScripts =>
        /\ InOrder
        /\ OnlyLastSucceeds
        /\ CascadeEnded => (Succeeded \/ Len(tried) = 3)

\* C7 amended: the same, except that in extract_shot_clips and
\* extract_goal_clips the cascade also ends, with the later strategies not
\* run, when subprocess.run itself raises at strategy 1 or 2.
C7_CascadeOrder ==
    script \in ThreeStrategyScripts =>
        /\ InOrder
        /\ OnlyLastSucceeds
        /\ (InCascade /\ pc = "s2") => Len(tried) = 1
        /\ (InCascade /\ pc = "s3") => Len(tried) = 2
        /\ CascadeEnded =>
              \/ Succeeded
              \/ Len(tried) = 3
              \/ /\ script \in {"shots", "goals_fixed"}
                 /\ tried[Len(tried)].verdict = "raised"

\* a cascade that ran all three strategies and ended with the third succeeding
C7_Witness ==
    /\ script \in ThreeStrategyScripts
    /\ CascadeEnded
    /\ Len(tried) = 3
    /\ tried[1].verdict = "failed" /\ tried[2].verdict = "failed"
    /\ tried[3].verdict = "success"

\* C8: a strategy is judged successful only if the tool exited with status 0
\* and the output file exists with more than 1000 bytes.
C8_SuccessCriterion ==
    last.verdict = "success" =>
        /\ last.rc = 0
        /\ last.size_after # NoWrite
        /\ last.size_after > min_output_bytes

\* C9: no strategy after the first starts with a file present at its output
\* path.
C9_NoStaleFile ==
    last.strategy >= 2 => ~last.present_before

\* the files of the output directory left for the same clip as path
ArtifactsOf(path) ==
    {f \in disk : [f.path EXCEPT !.ext = "mkv"] = [path EXCEPT !.ext = "mkv"]}

\* C10: when strategies 1 and 2 fail and strategy 3 succeeds, the clip is
\* reported as produced by strategy 3 and no file written by strategy 1 or 2
\* is left in the output directory.
C10_NoEarlierArtifacts ==
    (/\ CascadeEnded
     /\ Len(tried) = 3
     /\ tried[1].verdict # "success" /\ tried[2].verdict # "success"
     /\ tried[3].verdict = "success")
    => /\ last.strategy = 3
       /\ \A f \in ArtifactsOf(last.path) : f.by = 3


-----------------------------------------------------------------------------
(* Claims about a second run over the same output directory *)

SecondRun == run = 2 /\ pc # "start"

\* every path the first run reported as extracted holds the file that run
\* wrote, and the file is large enough
FirstRunFilesKept ==
    \A p \in succeeded :
        \E f \in disk : f.path = p /\ f.run = 1 /\ f.size > min_output_bytes

\* C11: when extract_freekick_goal_clips, extract_penalty_clips,
\* extract_shot_clips or extract_goal_clips is run a second time on the same
\* annotations, videos and output directory, no tool invocation is made for
\* a clip the first run reported as extracted, and no file of such a clip
\* is written again.
C11_NoAttemptOnExtractedClip ==
    (SecondRun /\ script \in {"freekick", "penalty", "shots", "goals_fixed"}) =>
        /\ last # NoInvocation => last.path \notin succeeded
        /\ \A f \in disk : f.path \in succeeded => f.run = 1

\* C12: if the first run of extract_background_clips extracted all
\* clips_per_game clips of the game, a second run with the same seed makes
\* no tool invocation for the game and creates no file.
C12_BackgroundSecondRunIdle ==
    (SecondRun /\ script = "background" /\ extracted1 >= clips_per_game
       /\ FirstRunFilesKept) =>
        /\ last = NoInvocation
        /\ \A f \in disk : f.run = 1

-----------------------------------------------------------------------------
(* Claims about the planned interval of a trigger/outcome pair *)

\* the request of pair k: its period, output path and interval
RequestPeriod(k) ==
    IF script = "penalty" THEN events_with_time[pairs[k].trigger].period
    ELSE events_with_time[pairs[k].outcome].period

RequestPath(k) ==
    ClipPath(script, k, RequestPeriod(k), events_with_time[pairs[k].trigger],
             events_with_time[pairs[k].outcome])

RequestPlan(k) ==
    IF script = "penalty"
    THEN PenaltyPlan(RequestPeriod(k), events_with_time[pairs[k].trigger].time_seconds,
                     videos[RequestPeriod(k)], RequestPath(k))
    ELSE FreekickPlan(RequestPeriod(k), events_with_time[pairs[k].outcome].time_seconds,
                      RequestPath(k))

\* the request reaches the computation of its interval
Plannable(k) ==
    /\ RequestPeriod(k) \in {1, 2}
    /\ videos[RequestPeriod(k)].exists
    /\ videos[RequestPeriod(k)].opens
    /\ videos[RequestPeriod(k)].fps > 0
    /\ ~Exists(disk, RequestPath(k))

\* duration below one second
BelowOneSecond(pl) ==
    \/ pl.dur_num < pl.den
    \/ pl.dur_num = pl.den /\ pl.dur_eps < 0

InCorrCascade == script \in CorrScripts /\ pc \in {"s1", "s2"}

\* C13: in extract_freekick_goal_clips and extract_penalty_clips a request
\* whose actual_duration is below 1 s is dropped with no tool invocation and
\* no output file and the loop goes on with the next request; every request
\* for which a strategy is attempted has actual_duration >= 1 s, and every
\* request with actual_duration >= 1 s goes to the first strategy.
C13_ShortRequestsDropped ==
    /\ [](InCorrCascade => ~BelowOneSecond(plan))
    /\ [][(pc = "clip" /\ script \in CorrScripts /\ Plannable(idx)) =>
            IF BelowOneSecond(RequestPlan(idx))
            THEN /\ pc' = (IF idx < Len(pairs) THEN "clip" ELSE "done")
                 /\ idx' = idx + 1
                 /\ disk' = disk
                 /\ tried' = <<>> /\ last' = NoInvocation
            ELSE /\ pc' = "s1" /\ idx' = idx
                 /\ plan' = RequestPlan(idx)]_vars

\* the first request was dropped for its duration, nothing was invoked or
\* written for it, and the second request is at its first strategy
C13_Witness ==
    /\ script \in CorrScripts
    /\ pc = "s1" /\ idx = 2
    /\ disk = {} /\ last = NoInvocation
    /\ Plannable(1) /\ BelowOneSecond(RequestPlan(1))
    /\ ~BelowOneSecond(plan)

\* C14: every interval planned by extract_freekick_goal_clips or
\* extract_penalty_clips lies in the period video: start >= 0 and
\* start + actual_duration <= video duration (total_frames / fps).
C14_ClampedToVideo ==
    InCorrCascade =>
        LET v == videos[plan.period]
        IN  /\ plan.start_num >= 0
            /\ (plan.start_num + plan.dur_num) * v.fps <= v.total_frames * plan.den

\* the goal of the pair being processed
GoalTime == events_with_time[pairs[idx].outcome].time_seconds

-----------------------------------------------------------------------------
(* Claims about failures *)

\* the step is a tool invocation in which subprocess.run raised: ffmpeg
\* could not be found or executed
ToolUnavailableStep == last' # last /\ last'.raised

\* C16: when ffmpeg cannot be found or executed the run is aborted: the
\* step in which subprocess.run raises ends the processing, no further clip
\* of the game is processed and no further invocation is made.
C16_AbortOnToolFailure == [][ToolUnavailableStep => pc' = "done"]_vars

ItemScripts == {"freekick", "penalty", "shots", "goals_fixed", "mkv_clips"}

\* C17: a failure of one event or one clip (a period video that is missing
\* or does not open, a frame rate of 0, every strategy failing) never stops
\* the processing: the script does not end on an uncaught exception, and
\* unless the tool was unavailable it ends only after the last item.
C17_LocalFailuresNonFatal ==
    script \in ItemScripts =>
        /\ pc # "crashed"
        /\ (pc = "done" /\ ~last.raised) => idx > NumItems

-----------------------------------------------------------------------------
(* Claims about the normalised event sequence *)

\* indices, in source order, of the records whose gameTime parses
RECURSIVE KeptIndices(_, _)
KeptIndices(ann, k) ==
    IF k > Len(ann) THEN <<>>
    ELSE IF ann[k].gameTime.wellformed THEN <<k>> \o KeptIndices(ann, k + 1)
    ELSE KeptIndices(ann, k + 1)

\* the annotation list with the other records removed
Stripped(ann) ==
    LET kept == KeptIndices(ann, 1)
    IN  [n \in 1..Len(kept) |-> ann[kept[n]]]

\* the pairs as (outcome record, trigger record) of the annotation list;
\* origin maps the src of an event to the index of its record in that list
PairsAsRecords(evs, prs, origin) ==
    [n \in DOMAIN prs |->
        <<origin[evs[prs[n].outcome].src], origin[evs[prs[n].trigger].src]>>]

\* C18: in extract_freekick_goal_clips / extract_penalty_clips a record
\* whose gameTime is missing or malformed is left out of the event sequence,
\* the pass is not aborted, and the pairs found are exactly those found on
\* the annotation list with such records removed.
C18_MalformedLeftOut ==
    Correlated =>
        LET kept == KeptIndices(annotations, 1)
            evs  == SortEvents(CollectEvents(Stripped(annotations), 1))
            prs  == FindPairs(evs, 1, outcome_label(script), trigger_labels(script),
                              window)
        IN  /\ pc # "crashed"
            /\ {events_with_time[n].src : n \in DOMAIN events_with_time}
                   = {kept[n] : n \in DOMAIN kept}
            /\ Len(events_with_time) = Len(kept)
            /\ PairsAsRecords(events_with_time, pairs, [k \in DOMAIN annotations |-> k])
                   = PairsAsRecords(evs, prs, kept)

\* a trigger-labelled record that does not parse stands between the two
\* records of a pair
C18_Witness ==
    /\ Correlated
    /\ Len(annotations) = 3
    /\ ~annotations[2].gameTime.wellformed
    /\ annotations[2].label \in trigger_labels(script)
    /\ Len(pairs) = 1
    /\ events_with_time[pairs[1].trigger].src = 1
    /\ events_with_time[pairs[1].outcome].src = 3

\* C19: every event of the normalised sequence has period 1 or 2 and
\* time_seconds >= 0; a record with another period number or a negative
\* minutes or seconds field does not become an event.
C19_EventInvariant ==
    \A n \in DOMAIN events_with_time :
        /\ events_with_time[n].period \in {1, 2}
        /\ events_with_time[n].time_seconds >= 0

-----------------------------------------------------------------------------
(* Claims about a missing period video *)

VideoScripts == {"freekick", "penalty", "shots"}

\* the period of item k of the loop
ItemPeriod(k) ==
    IF script = "shots" THEN shot_events[k].period ELSE RequestPeriod(k)

ItemPath(k) ==
    IF script = "shots" THEN ShotPath(k, shot_events[k]) ELSE RequestPath(k)

\* name and interval of item k when the period video is v
ItemPlan(k, v) ==
    IF script = "shots" THEN ShotPlan(shot_events[k], v, ItemPath(k))
    ELSE IF script = "penalty"
    THEN PenaltyPlan(ItemPeriod(k), events_with_time[pairs[k].trigger].time_seconds,
                     v, ItemPath(k))
    ELSE FreekickPlan(ItemPeriod(k), events_with_time[pairs[k].outcome].time_seconds,
                      ItemPath(k))

VideoAbsent(p) == p \in {1, 2} /\ ~videos[p].exists
OneVideoAbsent == \E p \in {1, 2} : VideoAbsent(p)

\* item k is of a period whose video is there and would go to the first
\* strategy
Extractable(k) ==
    /\ ItemPeriod(k) \in {1, 2}
    /\ videos[ItemPeriod(k)].exists /\ videos[ItemPeriod(k)].opens
    /\ videos[ItemPeriod(k)].fps > 0
    /\ ~Exists(disk, ItemPath(k))
    /\ script \in CorrScripts => ~BelowOneSecond(ItemPlan(k, videos[ItemPeriod(k)]))

\* C20: when the video of a period is absent, every request of that period
\* is skipped with no tool invocation and no output file, the run goes on
\* to the last request, and every request of the other period is processed
\* with the output name and the interval that depend on its own event and
\* its own period video only, the same as with both videos present.
C20_AbsentVideoSkipped ==
    /\ []((script \in VideoScripts /\ OneVideoAbsent) =>
            /\ pc # "crashed"
            /\ pc = "done" => idx > NumItems
            /\ pc \in {"s1", "s2", "s3"} =>
                   /\ ~VideoAbsent(plan.period)
                   /\ plan = ItemPlan(idx, videos[plan.period]))
    /\ [][(script \in VideoScripts /\ OneVideoAbsent /\ pc = "clip") =>
            IF VideoAbsent(ItemPeriod(idx))
            THEN /\ pc' = (IF idx < NumItems THEN "clip" ELSE "done")
                 /\ idx' = idx + 1
                 /\ disk' = disk
                 /\ tried' = <<>> /\ last' = NoInvocation
            ELSE Extractable(idx) =>
                     /\ pc' = "s1" /\ idx' = idx
                     /\ plan' = ItemPlan(idx, videos[ItemPeriod(idx)])]_vars

\* the run has ended after skipping a request of the absent period without
\* writing a file for it, and a clip of the other period was extracted
C20_Witness ==
    /\ script \in VideoScripts /\ OneVideoAbsent
    /\ pc = "done" /\ NumItems >= 2
    /\ \E k \in 1..NumItems : VideoAbsent(ItemPeriod(k))
    /\ disk # {}
    /\ \A f \in disk : ~VideoAbsent(f.path.period)

-----------------------------------------------------------------------------
(* Claims about the numbering of the clip requests *)

OrderScripts == {"freekick", "shots", "goals_fixed"}

\* (period, time in seconds) of the event that request number k is named after
RequestKey(k) ==
    IF script = "freekick"
    THEN <<events_with_time[pairs[k].outcome].period,
           events_with_time[pairs[k].outcome].time_seconds>>
    ELSE IF script = "shots"
    THEN <<shot_events[k].period, shot_events[k].minutes * 60 + shot_events[k].seconds>>
    ELSE <<goal_events[k].gameTime.period,
           goal_events[k].gameTime.minutes * 60 + goal_events[k].gameTime.seconds>>

Chronological(a, b) == a[1] < b[1] \/ (a[1] = b[1] /\ a[2] <= b[2])

\* C21: in extract_freekick_goal_clips, extract_shot_clips and
\* extract_goal_clips, a request with a smaller index in its output name is
\* not later in (period, time) than one with a greater index; no period-2
\* event is numbered before a period-1 event.
C21_ChronologicalNumbering ==
    (script \in OrderScripts /\ pc # "start") =>
        \A a, b \in 1..NumItems :
            a < b => Chronological(RequestKey(a), RequestKey(b))

-----------------------------------------------------------------------------
(* Claims about ties and shared triggers in the backward scan *)

SameStamp(k1, k2) ==
    /\ SamePeriod(k1, k2)
    /\ events_with_time[k1].time_seconds = events_with_time[k2].time_seconds

\* C26: the sort is stable, so when two trigger-labelled candidates of the
\* scan (events of the window that precede the outcome in the sorted list)
\* have the same period and timestamp, the events keep their source order
\* and a pair that uses one of them uses the one later in the source
\* annotation order.
C26_TieBreakBySourceOrder ==
    Correlated =>
        /\ \A k1, k2 \in DOMAIN events_with_time :
               (k1 < k2 /\ SameStamp(k1, k2)) =>
                   events_with_time[k1].src < events_with_time[k2].src
        /\ \A n \in DOMAIN pairs :
               \A k \in InWindowBefore(pairs[n].outcome) :
                   SameStamp(k, pairs[n].trigger) =>
                       events_with_time[k].src <= events_with_time[pairs[n].trigger].src

\* a pair whose trigger has a twin of the same timestamp in the window
C26_Witness ==
    /\ Correlated
    /\ \E n \in DOMAIN pairs :
           \E k \in InWindowBefore(pairs[n].outcome) :
               /\ k # pairs[n].trigger
               /\ SameStamp(k, pairs[n].trigger)
               /\ events_with_time[k].src < events_with_time[pairs[n].trigger].src

\* C27: a trigger is not consumed: when two outcomes have the same event as
\* the most recent trigger of their window, two pairs are reported and both
\* reference that event; an event between the trigger and the outcome that
\* is no trigger (another outcome included) does not stop the scan.
C27_TriggerNotConsumed ==
    Correlated =>
        /\ \A i1, i2 \in DOMAIN events_with_time :
               (/\ i1 # i2 /\ IsOutcome(i1) /\ IsOutcome(i2)
                /\ InWindowBefore(i1) # {} /\ InWindowBefore(i2) # {}
                /\ SetMax(InWindowBefore(i1)) = SetMax(InWindowBefore(i2)))
               => \E n1 \in PairsOf(i1), n2 \in PairsOf(i2) :
                      /\ n1 # n2
                      /\ pairs[n1].trigger = SetMax(InWindowBefore(i1))
                      /\ pairs[n2].trigger = pairs[n1].trigger
        /\ \A i \in DOMAIN events_with_time :
               (/\ IsOutcome(i) /\ InWindowBefore(i) # {}
                /\ \E j \in DOMAIN events_with_time :
                       SetMax(InWindowBefore(i)) < j /\ j < i)
               => \E n \in PairsOf(i) : pairs[n].trigger = SetMax(InWindowBefore(i))

\* two outcomes paired with one trigger, the first outcome lying between
\* the trigger and the second outcome
C27_Witness ==
    /\ Correlated
    /\ \E n1, n2 \in DOMAIN pairs :
           /\ n1 # n2
           /\ pairs[n1].trigger = pairs[n2].trigger
           /\ pairs[n1].trigger < pairs[n1].outcome
           /\ pairs[n1].outcome < pairs[n2].outcome

-----------------------------------------------------------------------------
(* Claims about the shots that are kept *)

\* the annotation record k is a shot for which a clip is planned
ShotPlanned(k) == \E n \in DOMAIN shot_events : shot_events[n].src = k

\* a Goal of the period of record k lies within 10 s of it, before or after
GoalWithinTen(k) ==
    \E g \in GoalRecordsAt(annotations[k].gameTime.period) :
        Abs(SecondsOf(g) - SecondsOf(k)) <= near_goal_seconds

\* C28: extract_shot_clips plans a clip for a "Shots on target" event if and
\* only if its time parses and no Goal of its period lies within 10 seconds
\* of it, before or after; a Goal of the other period suppresses no shot.
C28_ShotsAwayFromGoals ==
    (script = "shots" /\ pc # "start") =>
        \A k \in DOMAIN annotations :
            annotations[k].label = "Shots on target" =>
                (ShotPlanned(k) <=>
                    (annotations[k].gameTime.wellformed /\ ~GoalWithinTen(k)))

-----------------------------------------------------------------------------
(* Claims about what a failed cascade leaves behind *)

RemovingScripts == {"freekick", "penalty", "shots", "goals_fixed", "background"}

AllJudgedFailed ==
    /\ CascadeEnded
    /\ \A n \in DOMAIN tried : tried[n].verdict # "success"

\* C29: in extract_freekick_goal_clips, extract_penalty_clips,
\* extract_shot_clips, extract_goal_clips and extract_background_clips, when
\* the cascade of a clip has ended with every strategy judged failed, no
\* file is left at the output path of that clip.
C29_NoFileAfterFailure ==
    (script \in RemovingScripts /\ AllJudgedFailed) => ~Exists(disk, last.path)

-----------------------------------------------------------------------------
(* Claims about the interval of a background clip *)

\* the duration of the video is at least x seconds
LastsAtLeast(v, x) == v.fps > 0 /\ x * v.fps <= v.total_frames

\* C30: every clip extract_background_clips attempts covers [t, t + 15] with
\* 20 <= t <= duration - 20, so that it ends inside the period video; every
\* Goal of its period is more than 15 s after the end of the clip or before
\* its start; a period whose video lasts 40 s or less yields no attempt.
C30_ClipInsideVideoAwayFromGoals ==
    script = "background" =>
        /\ \A a \in accepted :
               LET v == videos[a.period]
               IN  /\ min_time * Res <= a.time
                   /\ v.fps > 0
                   /\ a.time * v.fps <= (v.total_frames - 20 * v.fps) * Res
                   /\ (a.time + 15 * Res) * v.fps <= v.total_frames * Res
                   /\ v.total_frames > 40 * v.fps
                   /\ \A k \in GoalRecordsAt(a.period) :
                          \/ SecondsOf(k) * Res > a.time + (15 + 15) * Res
                          \/ SecondsOf(k) * Res < a.time
        /\ pc \in {"s1", "s2", "s3"} =>
               /\ [period |-> plan.period, time |-> plan.start_num] \in accepted
               /\ plan.den = Res /\ plan.start_eps = 0
               /\ plan.dur_num = 15 * Res /\ plan.dur_eps = 0
        /\ \A f \in disk : \E a \in accepted :
               /\ a.period = f.path.period
               /\ f.path.t1 = <<(a.time \div Res) \div 60, (a.time \div Res) % 60>>

\* a game whose first period lasts 40 s and has a goal, and whose second
\* period has a goal at 100 s: a clip starting at 131 s was attempted there
C30_Witness ==
    /\ script = "background"
    /\ videos[1] = Video40
    /\ GoalRecordsAt(2) # {}
    /\ pc = "s1" /\ plan.period = 2 /\ plan.start_num = 131 * Res
    /\ \E a \in accepted : a.period = 2

-----------------------------------------------------------------------------
(* Claims about two concurrent workers *)

\* C22: when two workers process the same clip into the same output
\* directory, the test on the existing file keeps them apart: in no
\* interleaving have both workers run an extraction strategy that writes
\* the output path of the clip.
C22_NoConcurrentExtraction ==
    workers # NoWorkers =>
        ~(workers[1].ran > 0 /\ workers[2].ran > 0)

-----------------------------------------------------------------------------
(* Claims about the games of one run *)

\* calls of random.uniform made for the current game
DrawsOfGame == ndraws - game_start

\* C23: under the fixed seed the times extract_background_clips draws for a
\* game depend on that game alone: whatever games were processed before it
\* and however their extractions went, its draw number j is the value the
\* generator gives to a game processed first with the same bounds, the
\* value of call number j after random.seed(42).
C23_DrawsIndependentOfEarlierGames ==
    script = "background" =>
        \A j \in 1..DrawsOfGame :
            stream[game_start + j].time = stream[j].time

-----------------------------------------------------------------------------
(* Claims about the end of the sampling loop *)

\* a call of random.uniform
Drawing == ndraws' = ndraws + 1

Sampling == script = "background" /\ pc # "start"

\* C24: the sampling loop of extract_background_clips ends.  A draw is made
\* only while the clip count is unmet and fewer than 50 attempts were made;
\* the attempt counter and the clip counter are never reset between the
\* periods, so one call makes at most 50 draws and counts at most
\* clips_per_game clips over both periods, and period 2 is sampled only when
\* period 1 ended with the count unmet and attempts left.
C24_SamplingLoopEnds ==
    /\ [](Sampling =>
            /\ attempts <= max_attempts
            /\ ndraws <= attempts
            /\ clips_extracted <= clips_per_game
            /\ Cardinality(accepted) <= max_attempts)
    /\ [][Sampling =>
            /\ attempts' >= attempts /\ attempts' <= attempts + 1
            /\ clips_extracted' >= clips_extracted
            /\ period' # period => clips_extracted' = clips_extracted
            /\ Drawing =>
                   /\ clips_extracted < clips_per_game
                   /\ attempts < max_attempts
                   /\ attempts' = attempts + 1
            /\ (pc = "draw" /\ (clips_extracted >= clips_per_game
                                \/ attempts >= max_attempts)) =>
                   /\ ~Drawing
                   /\ pc' # "s1"]_vars
    /\ <>(pc = "done")

\* the loop has ended after 50 attempts, a draw made in each, with the
\* count unmet
C24_Witness ==
    /\ script = "background" /\ pc = "done"
    /\ attempts = max_attempts
    /\ clips_extracted < clips_per_game
    /\ ndraws = max_attempts

-----------------------------------------------------------------------------
(* Claims about the per-frame fallback *)

\* the processing of goal number idx - 1 has just ended
GoalEnded == script = "into_mkv" /\ pc \in {"clip", "done"} /\ idx > 1

HalfVideoExists(goal) ==
    goal.gameTime.period \in {1, 2} /\ videos[goal.gameTime.period].exists

\* a non-empty output video or the frames directory of the clip is there
ArtifactAt(path) ==
    \/ Exists(disk, path) /\ GetSize(disk, path) > 0
    \/ \E fd \in frames_dirs : fd.path = path

\* C25: in extract_clips of extract/extract_into_mkv.py, for every valid
\* goal whose period video file exists, when the processing of the goal ends
\* a non-empty output video is at the output path, or the frames directory
\* named after the clip has been created with the frames of the interval in
\* it.
C25_SomeArtifactLeft ==
    (GoalEnded /\ HalfVideoExists(goal_events[idx - 1]))
        => ArtifactAt(IntoMkvPath(goal_events[idx - 1]))
====
